---- MODULE Spec2Model ----
(***************************************************************************)
(* Model of the task scheduler of AI-Service-Monitor-Pro                   *)
(* (src/backend/core/scheduler.py) with the persistence operations it      *)
(* calls (services/task_service.py, services/log_service.py), the task     *)
(* update route (api/routes/tasks.py) and the wrapper processes it spawns  *)
(* (utils/log_wrapper.py).                                                 *)
(*                                                                         *)
(* Everything runs on one asyncio event loop, so a coroutine is only       *)
(* interleaved with the others at an `await`.  Each coroutine is cut at    *)
(* its awaits: one action is the synchronous code that runs when an await  *)
(* returns, up to and including the database operation of the next await   *)
(* (whose effect is applied when it is issued).  The pc of a coroutine     *)
(* names the await it is suspended at.                                     *)
(***************************************************************************)
EXTENDS Integers, Sequences, FiniteSets, TLC

\* ---------------------------------------------------------------- bounds
Tasks == {1, 2}
MaxProcs == 3          \* wrapper processes that may be spawned in a run
MaxOps == 3            \* scheduler operations (launch, stop, sweep, update, shutdown) started in a run
MaxRotations == 1      \* log rotations by wrapper processes in a run
MaxActive == 2         \* coroutines of the scheduler in progress at the same time

\* ------------------------------------------------------ program constants
RetentionLimit == 7    \* cleanup_old_logs(max_files = 7)

PENDING == "pending"
RUNNING == "running"
STOPPED == "stopped"
COMPLETED == "completed"
FAILED == "failed"
TaskStatus == {PENDING, RUNNING, STOPPED, COMPLETED, FAILED}

NONE == "none"
DAILY == "daily"
WEEKLY == "weekly"
MONTHLY == "monthly"
QUARTERLY == "quarterly"
RepeatType == {NONE, DAILY, WEEKLY, MONTHLY, QUARTERLY}

\* end_time of a task: unset, on start_time's calendar date, or on a later one
EndKinds == {"unset", "same_date", "later_date"}

Pids == 1..MaxProcs
None == 0

VARIABLES
    task_ids,           \* ids of the rows of the tasks table
    status,             \* Task.status in the database, per task id
    repeat_type,        \* Task.repeat_type
    end_time,           \* Task.end_time, as one of EndKinds
    past_end_date,      \* utcnow().date() > end_time.date(), per task
    logs,               \* task_logs rows per task, oldest first: [id, file, open]
    dir_latest,         \* newest (by mtime) file task_<id>_*.txt in the log directory, 0 if none
    procs,              \* OS state of each wrapper process: "none", "alive", "exit0", "exitN"
    proc_task,          \* task a wrapper process was spawned for
    running_processes,  \* TaskScheduler.running_processes: task id -> pid (None: no entry)
    task_log_entries,   \* TaskScheduler.task_log_entries: task id -> log entry id (None: no entry)
    task_log_files,     \* TaskScheduler.task_log_files: task id -> log file (None: no entry)
    jobs,               \* job ids in the APScheduler job store
    sched,              \* "running" until TaskScheduler.stop() has called scheduler.shutdown()
    exec,               \* the _execute_task coroutines, by (entry point, task id)
    stopc,              \* the stop_task coroutines, by (caller, task id)
    shut,               \* the TaskScheduler.stop() coroutine
    mon,                \* the _monitor_tasks coroutine
    upd,                \* the update_task request, per task id
    ops,                \* operations started so far
    rotations,          \* log rotations so far
    boot,               \* the TaskScheduler.start() coroutine
    trig,               \* the job store with its triggers and next run times, and the clock
    stream,             \* one websocket_logs session and the log file it follows
    stopall,            \* the stop_all_tasks coroutine
    term,               \* the psutil block of stop_task and the process tree it acts on
    sess,               \* one websocket_logs connection from accept to return
    rot,                \* one LogRotator, its directory and the wall-clock date
    san,                \* a task name and the file-name parts computed from it
    wrap,               \* one log_wrapper process, the command it runs and its disk
    clean               \* one cleanup_old_logs call, the log rows and the files on disk

dbvars == <<task_ids, status, repeat_type, end_time, logs>>
envvars == <<past_end_date, dir_latest, procs, proc_task>>
tables == <<running_processes, task_log_entries, task_log_files>>
ctxvars == <<exec, stopc, shut, mon, upd>>
\* the variables of the parts that the scheduler's own coroutines leave alone
sidevars == <<term, sess, rot, san, wrap, clean>>
auxvars == <<boot, trig, stream, sidevars>>
vars == <<task_ids, status, repeat_type, end_time, past_end_date, logs, dir_latest, procs,
          proc_task, running_processes, task_log_entries, task_log_files, jobs,
          sched, exec, stopc, shut, mon, upd, ops, rotations, stopall, auxvars>>

\* ------------------------------------------------------------ job store
FireJob(t) == <<"task", t>>
StopJob(t) == <<"stop_task", t>>
MonitorJob == <<"monitor_tasks", 0>>

\* ------------------------------------------------------------ log rows
Last(s) == s[Len(s)]
NextLogId(t) == IF logs[t] = <<>> THEN 1 ELSE Last(logs[t]).id + 1

\* LogService.create_log_entry: a new row with end_time NULL
CreateLogEntry(rows, id, f) == Append(rows, [id |-> id, file |-> f, open |-> TRUE])

\* LogService.end_log_entry: sets end_time of the row with this id, if it exists
EndLogEntry(rows, id) ==
    [i \in 1..Len(rows) |->
        IF rows[i].id = id THEN [rows[i] EXCEPT !.open = FALSE] ELSE rows[i]]

\* LogService.get_task_logs: the rows of the task, newest first
RECURSIVE Reverse(_)
Reverse(s) == IF s = <<>> THEN <<>> ELSE Append(Reverse(Tail(s)), Head(s))
GetTaskLogs(rows) == Reverse(rows)

\* LogService.cleanup_old_logs, first half: the ids beyond the newest max_files
LogsToDelete(rows, max_files) ==
    LET newest == GetTaskLogs(rows)
    IN  IF Len(newest) > max_files
        THEN {newest[i].id : i \in (max_files + 1)..Len(newest)}
        ELSE {}

\* LogService.cleanup_old_logs, second half: delete the rows with these ids
RECURSIVE DeleteRows(_, _)
DeleteRows(rows, ids) ==
    IF rows = <<>> THEN <<>>
    ELSE IF Head(rows).id \in ids THEN DeleteRows(Tail(rows), ids)
         ELSE <<Head(rows)>> \o DeleteRows(Tail(rows), ids)

OldRows == [i \in 1..RetentionLimit |-> [id |-> i, file |-> i, open |-> FALSE]]

RowFiles(rows) == {rows[i].file : i \in 1..Len(rows)}
RowIds(rows) == {rows[i].id : i \in 1..Len(rows)}
OpenRows(rows) == {i \in 1..Len(rows) : rows[i].open}
IsOpen(rows, id) == \E i \in 1..Len(rows) : rows[i].id = id /\ rows[i].open
IsClosed(rows, id) == \E i \in 1..Len(rows) : rows[i].id = id /\ ~rows[i].open

\* the first row, newest first, whose path is this file (scheduler.py 772-776)
FindByFile(rows, f) ==
    LET hits == {i \in 1..Len(rows) : rows[i].file = f}
    IN  IF hits = {} THEN None
        ELSE rows[CHOOSE i \in hits : \A j \in hits : j <= i].id

\* ------------------------------------- running_processes, a dict in insertion order
\* a sequence of <<task id, pid>> with at most one pair per task id
Has(d, t) == \E i \in 1..Len(d) : d[i][1] = t
Get(d, t) == d[CHOOSE i \in 1..Len(d) : d[i][1] = t][2]
Keys(d) == {d[i][1] : i \in 1..Len(d)}
RECURSIVE Del(_, _)
Del(d, t) ==
    IF d = <<>> THEN <<>>
    ELSE IF Head(d)[1] = t THEN Tail(d) ELSE <<Head(d)>> \o Del(Tail(d), t)
Put(d, t, p) ==
    IF Has(d, t)
    THEN [i \in 1..Len(d) |-> IF d[i][1] = t THEN <<t, p>> ELSE d[i]]
    ELSE Append(d, <<t, p>>)
KeyList(d) == [i \in 1..Len(d) |-> d[i][1]]

\* ------------------------------------------------------------ scheduling
JobIds == {FireJob(t) : t \in Tasks} \cup {StopJob(t) : t \in Tasks} \cup {MonitorJob}

\* the trigger _schedule_task gives a job of a task with this repeat rule
TriggerOf(rt) == IF rt = NONE THEN "date" ELSE "cron"

\* TaskScheduler._schedule_task: the job store after scheduling task t with
\* repeat rule rt and end time et; `past` stands for utcnow() being later than et
ScheduleTask(J, t, rt, et, past) ==
    LET J1 == [J EXCEPT ![FireJob(t)] = TriggerOf(rt)]
    IN  IF et = "unset" THEN J1
        ELSE IF rt = NONE
             THEN [J1 EXCEPT ![StopJob(t)] = IF past THEN "none" ELSE "date"]
             ELSE [J1 EXCEPT ![StopJob(t)] = "cron"]

\* _load_pending_tasks without the test of start_time against now
LoadTaskIgnoringStart(J, t, st, rt, et, past, start_ahead) ==
    IF rt # NONE THEN ScheduleTask(J, t, rt, et, past)
    ELSE IF st = PENDING THEN ScheduleTask(J, t, rt, et, past)
         ELSE J

\* _load_pending_tasks asking every task, recurring or not, to be pending
LoadTaskPendingOnly(J, t, st, rt, et, past, start_ahead) ==
    IF st # PENDING THEN J
    ELSE IF rt # NONE \/ start_ahead THEN ScheduleTask(J, t, rt, et, past)
         ELSE J

\* TaskScheduler._load_pending_tasks on one task: a recurring task is always
\* scheduled, a one-shot one only if it is pending and its start time is ahead
LoadTask(J, t, st, rt, et, past, start_ahead) ==
    IF rt # NONE THEN ScheduleTask(J, t, rt, et, past)
    ELSE IF st = PENDING /\ start_ahead THEN ScheduleTask(J, t, rt, et, past)
         ELSE J

RECURSIVE LoadPendingTasks(_, _, _, _, _, _, _)
LoadPendingTasks(J, ts, st, rt, et, past, ahead) ==
    IF ts = {} THEN J
    ELSE LET t == CHOOSE x \in ts : TRUE
         IN  LoadPendingTasks(LoadTask(J, t, st[t], rt[t], et[t], past[t], ahead[t]),
                              ts \ {t}, st, rt, et, past, ahead)

NoJobs == [j \in JobIds |-> "none"]

\* TaskScheduler.start: load the tasks, then add the monitor interval job
StartJobs(st, rt, et, past, ahead) ==
    [LoadPendingTasks(NoJobs, task_ids, st, rt, et, past, ahead)
        EXCEPT ![MonitorJob] = "interval"]

\* the cutoff with the two dates compared the wrong way round
PastEndDateReversed(rt, et, past) == et # "unset" /\ rt # NONE /\ et = "later_date" /\ ~past

\* the end-date cutoff of _execute_task (scheduler.py 309-317)
PastEndDate(rt, et, past) == et # "unset" /\ rt # NONE /\ et = "later_date" /\ past

\* ------------------------------------------------------------ triggers
\* The clock shows the instants 0..MaxInstant: PerDay instants a day, at the
\* times of day of TimesOfDay, in a calendar of 12 months of DaysPerMonth days.
DaysPerMonth == 2
MaxInstant == 12
MaxEdits == 1          \* changes of the task's attributes in a run
TimesOfDay == <<[hour |-> 8, minute |-> 0, second |-> 0],
                [hour |-> 9, minute |-> 0, second |-> 0],
                [hour |-> 17, minute |-> 30, second |-> 0]>>
PerDay == Len(TimesOfDay)
YearLen == PerDay * DaysPerMonth * 12
NoTime == 0 - 1        \* an end_time of None, a next fire time of None

DayOf(n) == n \div PerDay
\* the fields of the datetime of instant n (weekday() counts from Monday = 0)
DateTimeOf(n) ==
    LET d == DayOf(n)
        tod == TimesOfDay[(n % PerDay) + 1]
    IN  [month |-> ((d \div DaysPerMonth) % 12) + 1, day |-> (d % DaysPerMonth) + 1,
         weekday |-> d % 7, hour |-> tod.hour, minute |-> tod.minute,
         second |-> tod.second]

AnyMonth == 1..12
AnyDay == 1..DaysPerMonth
AnyWeekday == 0..6
DateTrigger(run_date) == [kind |-> "date", run_date |-> run_date]
\* a CronTrigger: the fields that are not given accept every value
CronTrigger(month, day, day_of_week, hour, minute, second) ==
    [kind |-> "cron", month |-> month, day |-> day, day_of_week |-> day_of_week,
     hour |-> hour, minute |-> minute, second |-> second]

\* scheduler.py 178-182: quarter_months of a start (or end) month
QuarterMonths(start_month) ==
    LET quarter_start_month == ((start_month - 1) \div 3) * 3 + 1
    IN  {quarter_start_month + i * 3 :
            i \in {k \in 0..3 : quarter_start_month + k * 3 <= 12}}

\* the trigger _schedule_task builds from a repeat rule and a start time (lines
\* 149-189); the stop trigger is built the same way from the end time (211-287)
TriggerFor(rt, time) ==
    LET f == DateTimeOf(time) IN
    CASE rt = NONE -> DateTrigger(time)
      [] rt = DAILY ->
            CronTrigger(AnyMonth, AnyDay, AnyWeekday, f.hour, f.minute, f.second)
      [] rt = WEEKLY ->
            CronTrigger(AnyMonth, AnyDay, {f.weekday}, f.hour, f.minute, f.second)
      [] rt = MONTHLY ->
            CronTrigger(AnyMonth, {f.day}, AnyWeekday, f.hour, f.minute, f.second)
      [] rt = QUARTERLY ->
            CronTrigger(QuarterMonths(f.month), {f.day}, AnyWeekday,
                        f.hour, f.minute, f.second)

Matches(tr, n) ==
    LET f == DateTimeOf(n) IN
    /\ f.month \in tr.month /\ f.day \in tr.day /\ f.weekday \in tr.day_of_week
    /\ f.hour = tr.hour /\ f.minute = tr.minute /\ f.second = tr.second

\* get_next_fire_time ignoring the previous fire time
GetNextFireTimeFromNow(tr, previous_fire_time, now) ==
    IF tr.kind = "date" THEN tr.run_date
    ELSE LET hits == {n \in now..(MaxInstant + YearLen) : Matches(tr, n)}
         IN  IF hits = {} THEN NoTime
             ELSE CHOOSE n \in hits : \A m \in hits : n <= m

\* APScheduler's trigger.get_next_fire_time(previous_fire_time, now): a date
\* trigger fires once; a cron trigger fires at the first matching instant from
\* now on, or after its previous fire time
GetNextFireTime(tr, previous_fire_time, now) ==
    IF tr.kind = "date"
    THEN IF previous_fire_time = NoTime THEN tr.run_date ELSE NoTime
    ELSE LET early == IF now < previous_fire_time + 1 THEN now
                      ELSE previous_fire_time + 1
             from == IF previous_fire_time = NoTime THEN now
                     ELSE IF early = previous_fire_time THEN early + 1 ELSE early
             hits == {n \in from..(MaxInstant + YearLen) : Matches(tr, n)}
         IN  IF hits = {} THEN NoTime
             ELSE CHOOSE n \in hits : \A m \in hits : n <= m

\* the job store: a sequence of jobs with distinct ids
FireId == "task_1"
StopId == "stop_task_1"
RemoveJob(S, id) == SelectSeq(S, LAMBDA j : j.id # id)
\* add_job(..., replace_existing=True); the first run time is computed at once
AddJob(S, id, tr, now) ==
    Append(RemoveJob(S, id),
           [id |-> id, trigger |-> tr, next_run_time |-> GetNextFireTime(tr, NoTime, now)])

\* _schedule_task that adds its jobs without looking for the ones in the store
ScheduleJobsAppending(S, a, now) ==
    LET job(id, tr) == [id |-> id, trigger |-> tr,
                        next_run_time |-> GetNextFireTime(tr, NoTime, now)]
        S1 == Append(S, job(FireId, TriggerFor(a.repeat_type, a.start_time)))
    IN  IF a.end_time = NoTime \/ (a.repeat_type = NONE /\ ~(a.end_time > now)) THEN S1
        ELSE Append(S1, job(StopId, TriggerFor(a.repeat_type, a.end_time)))

\* TaskScheduler._schedule_task on the attributes a of the task, at instant now
ScheduleJobs(S, a, now) ==
    LET S1 == AddJob(RemoveJob(S, FireId), FireId,
                     TriggerFor(a.repeat_type, a.start_time), now)
    IN  IF a.end_time = NoTime THEN S1
        ELSE LET S2 == RemoveJob(S1, StopId)
             IN  IF a.repeat_type = NONE /\ ~(a.end_time > now) THEN S2
                 ELSE AddJob(S2, StopId, TriggerFor(a.repeat_type, a.end_time), now)

\* fired: the last run of a job; streak: the calls of _schedule_task since the
\* last change of anything else
IdleTrig == [now |-> 0,
             attr |-> [repeat_type |-> NONE, start_time |-> 0, end_time |-> NoTime],
             store |-> <<>>, fired |-> <<>>, streak |-> 0, edits |-> 0]

\* ------------------------------------------------------------ coroutines
ExecVia == {"timer", "manual"}
ExecIds == ExecVia \X Tasks
IdleExec == [pc |-> "idle", seen |-> PENDING, expired |-> FALSE, log |-> None,
             file |-> None, proc |-> None, outcome |-> "none"]

StopVia == {"direct", "timer", "shutdown", "all"}
StopIds == StopVia \X Tasks
\* entry: the log entry recorded for the task when stop_task acted on it;
\* exited: the tracked process had exited before stop_task signalled it;
\* grace: a launch of the task was at its grace sleep when stop_task returned
IdleStop == [pc |-> "idle", was_running |-> FALSE, exited |-> FALSE, entry |-> None,
             del |-> {}, result |-> "none", grace |-> FALSE]

IdleShut == [pc |-> "idle", rest |-> <<>>]
\* stop_all_tasks: the ids still to stop, the length of running_task_ids, and
\* the two counters
IdleStopAll == [pc |-> "idle", rest |-> <<>>, total |-> 0, success_count |-> 0,
                fail_count |-> 0]
\* start(): ahead[t] stands for task.start_time > now in _load_pending_tasks
IdleBoot == [pc |-> "done", ahead |-> [t \in Tasks |-> FALSE]]
\* errs: the tasks on which the sweep reached its except branch (line 778-779);
\* overwrote: the tasks whose STOPPED status the sweep replaced (lines 708-710)
IdleMon == [pc |-> "idle", rest |-> <<>>, t |-> None, p |-> None, latest |-> None,
            known |-> FALSE, id |-> None, errs |-> {}, overwrote |-> {}]
IdleUpd == [pc |-> "idle", cur |-> PENDING,
            req |-> [status |-> "unset",
                     prof |-> [repeat_type |-> "unset", end_time |-> "unset"]]]

\* websocket_logs: size is the length of the log file the wrapper writes, sent the
\* positions of the bytes pushed in log_update messages, ticks the polls that
\* found the file grown
IdleStream == [pc |-> "closed", size |-> 0, base |-> 0, last_size |-> 0,
               current_size |-> 0, sent |-> <<>>, ticks |-> 0]

\* the process tree of a tracked task: process 0 is the wrapper the scheduler
\* spawned, 1..MaxChildren its descendants
MaxChildren == 2
TreeProcs == 0..MaxChildren
\* st: the state of each process; obeys: the processes that exit on SIGTERM within
\* the timeout of wait_procs; children, alive: the lists stop_task holds;
\* i: the position of its loop; signalled, killed: the processes it has sent
\* SIGTERM and SIGKILL, in order
IdleTerm == [pc |-> "idle", st |-> [p \in TreeProcs |-> "none"], obeys |-> {},
             children |-> <<>>, alive |-> <<>>, i |-> 0,
             signalled |-> <<>>, killed |-> <<>>]
\* one websocket_logs connection. attached: the subscriber has not detached;
\* exists, status, rows: the task's row, its status and the number of its log
\* entries in the database (the latest entry names file rows); size: the length of
\* each log file, NoFile for a file that is not there; seen: task.status as the
\* handler holds it; path, last_size, current_size: its locals; last: the type
\* of the last message sent; out: the rotation notice and the positions of the
\* bytes of the file it announced, as sent since; registered: the connection is
\* in manager.active_connections
MaxLogRows == 2
MaxSessBytes == 1
LogPaths == 1..MaxLogRows
NoFile == 0 - 1
IdleSess == [pc |-> "closed", attached |-> FALSE, exists |-> FALSE,
             status |-> PENDING, rows |-> 0, size |-> [p \in LogPaths |-> NoFile],
             seen |-> PENDING, path |-> 0, last_size |-> 0, current_size |-> 0,
             last |-> "none", out |-> <<>>, registered |-> FALSE]
\* pc: "new" before LogRotator.__init__, "open" after it, "closed" after close();
\* today: the wall-clock date; files: the log files of the task in log_dir, oldest
\* first, each with the date and part of its name, the lines it had when the
\* rotator found it, and the markers and data written to it, in order;
\* cur: the position of current_log_file in files
NoDate == 0 - 1
IdleRot == [pc |-> "none", today |-> 0, log_date |-> NoDate, files |-> <<>>,
            cur |-> 0, line_count |-> 0, writes |-> 0]
\* name: a task name; service, wrapper: the safe_task_name the log service and
\* the wrapper have computed from it; done: which of the two have run
IdleSan == [name |-> <<>>, service |-> <<>>, wrapper |-> <<>>, done |-> {}]
\* pc: where run_command_with_log_rotation is; cmd, code: the supervised command
\* and its return code; disk: whether writes to the log directory succeed;
\* file: the rotator's current log file; pending: output lines in the pipe;
\* written: lines written to the log; trace: what the wrapper has done that
\* is visible from outside, in order; exit_code: the wrapper's own exit code;
\* status: the task status the scheduler's sweep has stored for the task
NoCode == 0 - 1000
IdleWrap == [pc |-> "none", cmd |-> "none", code |-> NoCode, disk |-> "ok",
             file |-> "none", pending |-> 0, written |-> 0, trace |-> <<>>,
             exit_code |-> NoCode, status |-> RUNNING]
\* pc: where cleanup_old_logs is; max_files: its argument; rows: the log rows
\* of the task cleaned (1) and of another task (2), oldest first; before: the
\* rows when the call began; disk: the log files that exist; todo:
\* logs_to_delete from the entry the loop is at; deleted: the ids of the rows
\* deleted, in the order of their deletion
IdleClean == [pc |-> "none", max_files |-> 0, rows |-> <<<<>>, <<>>>>,
              before |-> <<<<>>, <<>>>>, disk |-> {}, todo |-> <<>>, deleted |-> <<>>]
SideIdle ==
    /\ term = IdleTerm /\ sess = IdleSess /\ rot = IdleRot /\ san = IdleSan
    /\ wrap = IdleWrap /\ clean = IdleClean

\* ------------------------------------------------------------ initial states
\* The state after the lifespan start-up (TaskScheduler() and start()): the tables
\* are empty, the database holds what an earlier run of the backend left: tasks
\* that are pending or were left running, each with RetentionLimit closed log
\* entries.  The calendar date does not change during a run: it is past the end
\* date of the tasks from the start, or not.
InitStatuses == {PENDING, RUNNING}
Profiles == {[repeat_type |-> NONE, end_time |-> "unset"],
             [repeat_type |-> DAILY, end_time |-> "later_date"]}

InitWith(ids) ==
    /\ task_ids = ids
    /\ \E st \in InitStatuses : status = [t \in Tasks |-> st]
    /\ \E prof \in Profiles :
          /\ repeat_type = [t \in Tasks |-> prof.repeat_type]
          /\ end_time = [t \in Tasks |-> prof.end_time]
    /\ \E past \in BOOLEAN :
          past_end_date = [t \in Tasks |-> past /\ end_time[t] # "unset"]
    /\ logs = [t \in Tasks |-> OldRows]
    /\ dir_latest = [t \in Tasks |-> IF logs[t] = <<>> THEN 0 ELSE Last(logs[t]).file]
    /\ procs = [p \in Pids |-> "none"]
    /\ proc_task = [p \in Pids |-> None]
    /\ running_processes = <<>>
    /\ task_log_entries = [t \in Tasks |-> None]
    /\ task_log_files = [t \in Tasks |-> None]
    /\ \E ahead \in BOOLEAN :
          jobs = StartJobs(status, repeat_type, end_time, past_end_date,
                           [t \in Tasks |-> ahead])
    /\ sched = "running"
    /\ exec = [e \in ExecIds |-> IdleExec]
    /\ stopc = [s \in StopIds |-> IdleStop]
    /\ shut = IdleShut
    /\ mon = IdleMon
    /\ upd = [t \in Tasks |-> IdleUpd]
    /\ ops = 0
    /\ rotations = 0
    /\ boot = IdleBoot
    /\ trig = IdleTrig
    /\ stream = IdleStream
    /\ SideIdle
    /\ stopall = IdleStopAll

\* one task in the database
Init == InitWith({1})

\* Two tasks that have been launched and are running: each has a live wrapper
\* process in running_processes and an open log entry recorded for it, on top of
\* the older entries.  Their one-shot fire jobs have fired.
RunningRows == CreateLogEntry(OldRows, RetentionLimit + 1, RetentionLimit + 1)
InitRunning ==
    /\ task_ids = Tasks
    /\ status = [t \in Tasks |-> RUNNING]
    /\ \E prof \in Profiles :
          /\ repeat_type = [t \in Tasks |-> prof.repeat_type]
          /\ end_time = [t \in Tasks |-> prof.end_time]
    /\ past_end_date = [t \in Tasks |-> FALSE]
    /\ logs = [t \in Tasks |-> RunningRows]
    /\ dir_latest = [t \in Tasks |-> Last(logs[t]).file]
    /\ procs = [p \in Pids |-> IF p \in Tasks THEN "alive" ELSE "none"]
    /\ proc_task = [p \in Pids |-> IF p \in Tasks THEN p ELSE None]
    /\ running_processes = <<<<1, 1>>, <<2, 2>>>>
    /\ task_log_entries = [t \in Tasks |-> Last(logs[t]).id]
    /\ task_log_files = [t \in Tasks |-> Last(logs[t]).file]
    /\ jobs = StartJobs([t \in Tasks |-> PENDING], repeat_type, end_time, past_end_date,
                        [t \in Tasks |-> FALSE])
    /\ sched = "running"
    /\ exec = [e \in ExecIds |-> IdleExec]
    /\ stopc = [s \in StopIds |-> IdleStop]
    /\ shut = IdleShut
    /\ mon = IdleMon
    /\ upd = [t \in Tasks |-> IdleUpd]
    /\ ops = 0
    /\ rotations = 0
    /\ boot = IdleBoot
    /\ trig = IdleTrig
    /\ stream = IdleStream
    /\ SideIdle
    /\ stopall = IdleStopAll

\* ------------------------------------------------------------ _execute_task
Started(e) == exec[e].pc # "idle"
InProgress(c) == c.pc \notin {"idle", "done"}
Active ==
    Cardinality({e \in ExecIds : InProgress(exec[e])})
    + (IF \E s \in StopIds : InProgress(stopc[s]) /\ s[1] = "shutdown" THEN 0
       ELSE IF InProgress(shut) THEN 1 ELSE 0)
    + Cardinality({s \in StopIds : InProgress(stopc[s])})
    + (IF InProgress(mon) THEN 1 ELSE 0)
    + Cardinality({t \in Tasks : InProgress(upd[t])})
Budget == sched = "running" /\ ops < MaxOps /\ Active < MaxActive
FreePids == {p \in Pids : procs[p] = "none"}
NewPid == CHOOSE p \in FreePids : \A q \in FreePids : p <= q

\* _execute_task has returned (or raised): what is left of the coroutine is its
\* outcome and the log entry it created
Done(c, outcome) == [IdleExec EXCEPT !.pc = "done", !.outcome = outcome, !.log = c.log]

\* what the exception handler of _execute_task does to the tracked process
\* (scheduler.py 613-621): terminate it if it has not exited, drop the entry;
\* the wrapper's SIGTERM handler ends with sys.exit(0) (log_wrapper.py 245-256)
HandlerCleanup(t) ==
    IF Has(running_processes, t)
    THEN /\ procs' = [procs EXCEPT ![Get(running_processes, t)] =
                         IF @ = "alive" THEN "exit0" ELSE @]
         /\ running_processes' = Del(running_processes, t)
    ELSE UNCHANGED <<procs, running_processes>>

\* A timer fires job task_<t> (max_instances=1: not while its previous run is
\* still in progress), or start_task_immediately(t) is called; either enters
\* _execute_task, which reads the task (line 296).
ExecStart(via, t) ==
    /\ Budget
    /\ t \in task_ids
    /\ exec[<<via, t>>].pc = "idle"
    /\ Cardinality({e \in ExecIds : Started(e)}) < MaxProcs
    /\ IF via = "timer"
       THEN /\ jobs[FireJob(t)] # "none"
            /\ jobs' = [jobs EXCEPT ![FireJob(t)] = IF @ = "date" THEN "none" ELSE @]
       ELSE UNCHANGED jobs
    /\ exec' = [exec EXCEPT ![<<via, t>>] =
                   [@ EXCEPT !.pc = "get_task", !.seen = status[t],
                             !.expired = PastEndDate(repeat_type[t], end_time[t],
                                                     past_end_date[t])]]
    /\ ops' = ops + 1
    /\ UNCHANGED <<task_ids, status, repeat_type, end_time, past_end_date, logs, dir_latest,
                   procs, proc_task, tables, sched, stopc, shut, mon, upd, rotations>>
    /\ UNCHANGED <<stopall, auxvars>>

\* lines 297-333: the already-running check, the end-date cutoff, mark RUNNING
ExecCheck(via, t) ==
    LET e == <<via, t>> IN
    /\ sched = "running"
    /\ exec[e].pc = "get_task"
    /\ IF exec[e].seen = RUNNING
       THEN /\ exec' = [exec EXCEPT ![e] = Done(@, "already_running")]
            /\ UNCHANGED <<status, jobs>>
       ELSE IF exec[e].expired
       THEN /\ jobs' = [jobs EXCEPT ![FireJob(t)] = "none", ![StopJob(t)] = "none"]
            /\ exec' = [exec EXCEPT ![e] = Done(@, "expired")]
            /\ UNCHANGED status
       ELSE /\ status' = [status EXCEPT ![t] = RUNNING]
            /\ exec' = [exec EXCEPT ![e] = [@ EXCEPT !.pc = "set_running"]]
            /\ UNCHANGED jobs
    /\ UNCHANGED <<task_ids, repeat_type, end_time, past_end_date, logs, dir_latest, procs,
                   proc_task, tables, sched, stopc, shut, mon, upd, ops, rotations>>
    /\ UNCHANGED <<stopall, auxvars>>

\* lines 336-357: generate the log path, pre-create the file, create the LogEntry
ExecCreateLog(via, t) ==
    LET e == <<via, t>>
        f == dir_latest[t] + 1
        id == NextLogId(t)
    IN
    /\ sched = "running"
    /\ exec[e].pc = "set_running"
    /\ dir_latest' = [dir_latest EXCEPT ![t] = f]
    /\ logs' = [logs EXCEPT ![t] = CreateLogEntry(@, id, f)]
    /\ exec' = [exec EXCEPT ![e] = [@ EXCEPT !.pc = "create_log", !.log = id, !.file = f]]
    /\ UNCHANGED <<task_ids, status, repeat_type, end_time, past_end_date, procs, proc_task,
                   tables, jobs, sched, stopc, shut, mon, upd, ops, rotations>>
    /\ UNCHANGED <<stopall, auxvars>>

\* lines 358-491: record the entry and the file, build the command, check the
\* wrapper script, Popen, start the stderr reader, sleep for the grace period.
\* A missing wrapper script or a failing Popen raises into the handler (576-606).
LaunchFaults == {"none", "wrapper_missing", "popen_error"}
ExecSpawn(via, t) ==
    LET e == <<via, t>> IN
    /\ sched = "running"
    /\ exec[e].pc = "create_log"
    /\ task_log_entries' = [task_log_entries EXCEPT ![t] = exec[e].log]
    /\ task_log_files' = [task_log_files EXCEPT ![t] = exec[e].file]
    /\ \E fault \in LaunchFaults :
         IF fault = "none"
         THEN /\ procs' = [procs EXCEPT ![NewPid] = "alive"]
              /\ proc_task' = [proc_task EXCEPT ![NewPid] = t]
              /\ exec' = [exec EXCEPT ![e] = [@ EXCEPT !.pc = "sleep", !.proc = NewPid]]
              /\ UNCHANGED status
         ELSE /\ status' = [status EXCEPT ![t] = FAILED]
              /\ exec' = [exec EXCEPT ![e] = [@ EXCEPT !.pc = "exc_failed"]]
              /\ UNCHANGED <<procs, proc_task>>
    /\ UNCHANGED <<task_ids, repeat_type, end_time, past_end_date, logs, dir_latest,
                   running_processes, jobs, sched, stopc, shut, mon, upd, ops, rotations>>
    /\ UNCHANGED <<stopall, auxvars>>

\* lines 494-571: probe the process after the grace period.  Exited: a launch
\* failure, mark FAILED (535).  Alive: track it and mark RUNNING with the pid.
\* process.poll() is not None, for every exit code (lines 494-495)
ProbeExitedNonZero(state) == state = "exitN"
ProbeExited(state) == state # "alive"

ExecProbe(via, t) ==
    LET e == <<via, t>> IN
    /\ sched = "running"
    /\ exec[e].pc = "sleep"
    /\ IF ProbeExited(procs[exec[e].proc])
       THEN /\ status' = [status EXCEPT ![t] = FAILED]
            /\ exec' = [exec EXCEPT ![e] = [@ EXCEPT !.pc = "early_failed"]]
            /\ UNCHANGED running_processes
       ELSE /\ running_processes' = Put(running_processes, t, exec[e].proc)
            /\ status' = [status EXCEPT ![t] = RUNNING]
            /\ exec' = [exec EXCEPT ![e] = [@ EXCEPT !.pc = "set_running_pid"]]
    /\ UNCHANGED <<task_ids, repeat_type, end_time, past_end_date, logs, dir_latest, procs,
                   proc_task, task_log_entries, task_log_files, jobs, sched, stopc,
                   shut, mon, upd, ops, rotations>>
    /\ UNCHANGED <<stopall, auxvars>>

\* lines 538-546 and 576-606: after FAILED is written, close the log entry if one
\* is recorded; else drop the process entry and raise into the handler
ExecEarlyFailed(via, t) ==
    LET e == <<via, t>> IN
    /\ sched = "running"
    /\ exec[e].pc = "early_failed"
    /\ IF task_log_entries[t] # None
       THEN /\ logs' = [logs EXCEPT ![t] = EndLogEntry(@, task_log_entries[t])]
            /\ exec' = [exec EXCEPT ![e] = [@ EXCEPT !.pc = "early_end_log"]]
            /\ UNCHANGED <<status, running_processes>>
       ELSE /\ running_processes' = Del(running_processes, t)
            /\ status' = [status EXCEPT ![t] = FAILED]
            /\ exec' = [exec EXCEPT ![e] = [@ EXCEPT !.pc = "exc_failed"]]
            /\ UNCHANGED logs
    /\ UNCHANGED <<task_ids, repeat_type, end_time, past_end_date, dir_latest, procs, proc_task,
                   task_log_entries, task_log_files, jobs, sched, stopc, shut, mon,
                   upd, ops, rotations>>
    /\ UNCHANGED <<stopall, auxvars>>

\* lines 540-546 and 576-606: del task_log_entries[t] (a KeyError if the entry is
\* gone goes to the handler as well), drop the process entry, raise; the handler
\* marks FAILED again
ExecEarlyEndLog(via, t) ==
    LET e == <<via, t>> IN
    /\ sched = "running"
    /\ exec[e].pc = "early_end_log"
    /\ IF task_log_entries[t] # None
       THEN /\ task_log_entries' = [task_log_entries EXCEPT ![t] = None]
            /\ running_processes' = Del(running_processes, t)
       ELSE UNCHANGED <<task_log_entries, running_processes>>
    /\ status' = [status EXCEPT ![t] = FAILED]
    /\ exec' = [exec EXCEPT ![e] = [@ EXCEPT !.pc = "exc_failed"]]
    /\ UNCHANGED <<task_ids, repeat_type, end_time, past_end_date, logs, dir_latest, procs,
                   proc_task, task_log_files, jobs, sched, stopc, shut, mon, upd,
                   ops, rotations>>
    /\ UNCHANGED <<stopall, auxvars>>

\* lines 573-574: the launch path returns after a successful launch
ExecLaunched(via, t) ==
    LET e == <<via, t>> IN
    /\ sched = "running"
    /\ exec[e].pc = "set_running_pid"
    /\ exec' = [exec EXCEPT ![e] = Done(@, "launched")]
    /\ UNCHANGED <<dbvars, envvars, tables, jobs, sched, stopc, shut, mon, upd, ops,
                   rotations>>
    /\ UNCHANGED <<stopall, auxvars>>

\* lines 608-621, handler: close the recorded log entry, or finish at once
ExecExcFailed(via, t) ==
    LET e == <<via, t>> IN
    /\ sched = "running"
    /\ exec[e].pc = "exc_failed"
    /\ IF task_log_entries[t] # None
       THEN /\ logs' = [logs EXCEPT ![t] = EndLogEntry(@, task_log_entries[t])]
            /\ exec' = [exec EXCEPT ![e] = [@ EXCEPT !.pc = "exc_end_log"]]
            /\ UNCHANGED <<procs, running_processes>>
       ELSE /\ HandlerCleanup(t)
            /\ exec' = [exec EXCEPT ![e] = Done(@, "failed")]
            /\ UNCHANGED logs
    /\ UNCHANGED <<task_ids, status, repeat_type, end_time, past_end_date, dir_latest, proc_task,
                   task_log_entries, task_log_files, jobs, sched, stopc, shut, mon,
                   upd, ops, rotations>>
    /\ UNCHANGED <<stopall, auxvars>>

\* lines 611-621, handler: del task_log_entries[t] (a KeyError here leaves
\* _execute_task), then clean the tracked process up
ExecExcEndLog(via, t) ==
    LET e == <<via, t>> IN
    /\ sched = "running"
    /\ exec[e].pc = "exc_end_log"
    /\ IF task_log_entries[t] # None
       THEN /\ task_log_entries' = [task_log_entries EXCEPT ![t] = None]
            /\ HandlerCleanup(t)
            /\ exec' = [exec EXCEPT ![e] = Done(@, "failed")]
       ELSE /\ exec' = [exec EXCEPT ![e] = Done(@, "raised")]
            /\ UNCHANGED <<task_log_entries, procs, running_processes>>
    /\ UNCHANGED <<dbvars, past_end_date, dir_latest, proc_task, task_log_files, jobs,
                   sched, stopc, shut, mon, upd, ops, rotations>>
    /\ UNCHANGED <<stopall, auxvars>>

\* TaskScheduler.start_task_immediately: True unless _execute_task raised
StartResult(t) ==
    IF exec[<<"manual", t>>].pc # "done" THEN "none"
    ELSE IF exec[<<"manual", t>>].outcome = "raised" THEN "false" ELSE "true"

ExecNext ==
    \E via \in ExecVia, t \in Tasks :
        \/ ExecStart(via, t)
        \/ ExecCheck(via, t)
        \/ ExecCreateLog(via, t)
        \/ ExecSpawn(via, t)
        \/ ExecProbe(via, t)
        \/ ExecEarlyFailed(via, t)
        \/ ExecEarlyEndLog(via, t)
        \/ ExecLaunched(via, t)
        \/ ExecExcFailed(via, t)
        \/ ExecExcEndLog(via, t)

\* ------------------------------------------------------------ stop_task
\* a tally that does not look at the result of stop_task
TallyIgnoringResult(c, result) == [c EXCEPT !.success_count = @ + 1]

\* stop_all_tasks, lines 69-74: count the result of one stop_task call
Tally(c, result) ==
    IF result = "true" THEN [c EXCEPT !.success_count = @ + 1]
    ELSE [c EXCEPT !.fail_count = @ + 1]

\* What follows the return of a stop_task call: nothing for a direct call or a
\* stop timer; for TaskScheduler.stop() (lines 52-55) the next task of its list,
\* whose stop_task starts by reading the task, or scheduler.shutdown() at the end;
\* for stop_all_tasks (lines 67-86) the tally, then the next task or the result.
StopReturn(via, t, result, was) ==
    LET done == [IdleStop EXCEPT !.pc = "done", !.was_running = was, !.result = result,
                                 !.grace = \E v \in ExecVia : exec[<<v, t>>].pc = "sleep"]
    IN  IF via \in {"direct", "timer"}
        THEN /\ stopc' = [stopc EXCEPT ![<<via, t>>] = done]
             /\ UNCHANGED <<shut, sched, jobs, stopall>>
        ELSE IF via = "all"
        THEN /\ IF stopall.rest # <<>>
                THEN /\ stopc' = [stopc EXCEPT ![<<via, t>>] = done,
                                               ![<<via, Head(stopall.rest)>>] =
                                                   [IdleStop EXCEPT !.pc = "get_task"]]
                     /\ stopall' = [Tally(stopall, result) EXCEPT !.rest = Tail(@)]
                ELSE /\ stopc' = [stopc EXCEPT ![<<via, t>>] = done]
                     /\ stopall' = [Tally(stopall, result) EXCEPT !.pc = "done"]
             /\ UNCHANGED <<shut, sched, jobs>>
        ELSE IF shut.rest # <<>>
        THEN /\ stopc' = [stopc EXCEPT ![<<via, t>>] = done,
                                       ![<<via, Head(shut.rest)>>] =
                                           [IdleStop EXCEPT !.pc = "get_task"]]
             /\ shut' = [shut EXCEPT !.rest = Tail(@)]
             /\ UNCHANGED <<sched, jobs, stopall>>
        ELSE /\ stopc' = [stopc EXCEPT ![<<via, t>>] = done]
             /\ shut' = [shut EXCEPT !.pc = "done"]
             /\ sched' = "shutdown"
             /\ jobs' = NoJobs
             /\ UNCHANGED stopall

\* stop_task(t) is called directly, or the job stop_task_<t> fires; line 629
StopStart(via, t) ==
    /\ via \in {"direct", "timer"}
    /\ Budget
    /\ t \in task_ids
    /\ stopc[<<via, t>>].pc = "idle"
    /\ IF via = "timer"
       THEN /\ jobs[StopJob(t)] # "none"
            /\ jobs' = [jobs EXCEPT ![StopJob(t)] = IF @ = "date" THEN "none" ELSE @]
       ELSE UNCHANGED jobs
    /\ stopc' = [stopc EXCEPT ![<<via, t>>] = [@ EXCEPT !.pc = "get_task"]]
    /\ ops' = ops + 1
    /\ UNCHANGED <<dbvars, envvars, tables, sched, exec, shut, mon, upd, rotations>>
    /\ UNCHANGED <<stopall, auxvars>>

\* lines 633-663: if the task has a tracked process, terminate its tree, wait,
\* kill what is left (all blocking calls) and drop the entry; mark STOPPED.
\* The wrapper ends with code 0 from its SIGTERM handler or is killed.
ExitCodes == {"exit0", "exitN"}
StopTerminate(via, t) ==
    LET s == <<via, t>> IN
    /\ sched = "running"
    /\ stopc[s].pc = "get_task"
    /\ IF Has(running_processes, t)
       THEN /\ \E code \in ExitCodes :
                 procs' = [procs EXCEPT ![Get(running_processes, t)] =
                              IF @ = "alive" THEN code ELSE @]
            /\ running_processes' = Del(running_processes, t)
       ELSE UNCHANGED <<procs, running_processes>>
    /\ status' = [status EXCEPT ![t] = STOPPED]
    /\ stopc' = [stopc EXCEPT ![s] = [@ EXCEPT !.pc = "set_stopped",
                                             !.was_running = Has(running_processes, t),
                                             !.exited = Has(running_processes, t)
                                                 /\ procs[Get(running_processes, t)] # "alive",
                                             !.entry = task_log_entries[t]]]
    /\ UNCHANGED <<task_ids, repeat_type, end_time, past_end_date, logs, dir_latest, proc_task,
                   task_log_entries, task_log_files, jobs, sched, exec, shut, mon,
                   upd, ops, rotations>>
    /\ UNCHANGED <<stopall, auxvars>>

\* lines 666-671: close the recorded log entry, or go on to cleanup_old_logs,
\* which starts by reading the task's log rows
StopSetStopped(via, t) ==
    LET s == <<via, t>> IN
    /\ sched = "running"
    /\ stopc[s].pc = "set_stopped"
    /\ IF task_log_entries[t] # None
       THEN /\ logs' = [logs EXCEPT ![t] = EndLogEntry(@, task_log_entries[t])]
            /\ stopc' = [stopc EXCEPT ![s] = [@ EXCEPT !.pc = "end_log"]]
       ELSE /\ stopc' = [stopc EXCEPT ![s] =
                           [@ EXCEPT !.pc = "cleanup",
                                     !.del = LogsToDelete(logs[t], RetentionLimit)]]
            /\ UNCHANGED logs
    /\ UNCHANGED <<task_ids, status, repeat_type, end_time, envvars, tables, jobs, sched, exec,
                   shut, mon, upd, ops, rotations>>
    /\ UNCHANGED <<stopall, auxvars>>

\* lines 668-678: del task_log_entries[t]; a KeyError (the entry was removed
\* meanwhile) is caught by stop_task's except, which returns False
StopEndLog(via, t) ==
    LET s == <<via, t>> IN
    /\ sched = "running"
    /\ stopc[s].pc = "end_log"
    /\ IF task_log_entries[t] # None
       THEN /\ task_log_entries' = [task_log_entries EXCEPT ![t] = None]
            /\ stopc' = [stopc EXCEPT ![s] =
                           [@ EXCEPT !.pc = "cleanup",
                                     !.del = LogsToDelete(logs[t], RetentionLimit)]]
            /\ UNCHANGED <<shut, sched, jobs, stopall>>
       ELSE /\ StopReturn(via, t, "false", stopc[s].was_running)
            /\ UNCHANGED task_log_entries
    /\ UNCHANGED <<dbvars, envvars, running_processes, task_log_files, exec, mon, upd,
                   ops, rotations>>
    /\ UNCHANGED auxvars

\* cleanup_old_logs deletes the rows it selected; stop_task returns True
StopCleanup(via, t) ==
    LET s == <<via, t>> IN
    /\ sched = "running"
    /\ stopc[s].pc = "cleanup"
    /\ logs' = [logs EXCEPT ![t] = DeleteRows(@, stopc[s].del)]
    /\ StopReturn(via, t, "true", stopc[s].was_running)
    /\ UNCHANGED <<task_ids, status, repeat_type, end_time, envvars, tables, exec, mon, upd,
                   ops, rotations>>
    /\ UNCHANGED auxvars

\* TaskScheduler.stop (lines 49-55), called by the lifespan on shutdown: stop the
\* tasks that have a process entry now, one after the other, then shut down
ShutdownStart ==
    /\ Budget
    /\ shut.pc = "idle"
    /\ ops' = ops + 1
    /\ LET ids == KeyList(running_processes) IN
       IF ids = <<>>
       THEN /\ shut' = [shut EXCEPT !.pc = "done"]
            /\ sched' = "shutdown"
            /\ jobs' = NoJobs
            /\ UNCHANGED stopc
       ELSE /\ shut' = [pc |-> "stopping", rest |-> Tail(ids)]
            /\ stopc' = [stopc EXCEPT ![<<"shutdown", Head(ids)>>] =
                            [IdleStop EXCEPT !.pc = "get_task"]]
            /\ UNCHANGED <<sched, jobs>>
    /\ UNCHANGED <<dbvars, envvars, tables, exec, mon, upd, rotations>>
    /\ UNCHANGED <<stopall, auxvars>>

\* stop_all_tasks, lines 57-66: the ids in running_processes now; with none the
\* result is returned at once, else stop_task is awaited for each in turn
StopAllStart ==
    /\ Budget
    /\ stopall.pc = "idle"
    /\ ops' = ops + 1
    /\ LET ids == KeyList(running_processes) IN
       IF ids = <<>>
       THEN /\ stopall' = [IdleStopAll EXCEPT !.pc = "done"]
            /\ UNCHANGED stopc
       ELSE /\ stopall' = [IdleStopAll EXCEPT !.pc = "stopping", !.rest = Tail(ids),
                                              !.total = Len(ids)]
            /\ stopc' = [stopc EXCEPT ![<<"all", Head(ids)>>] =
                            [IdleStop EXCEPT !.pc = "get_task"]]
    /\ UNCHANGED <<dbvars, envvars, tables, jobs, sched, exec, shut, mon, upd, rotations,
                   auxvars>>

\* the dict stop_all_tasks returns (lines 60-61, without failed_count, and 80-86)
StopAllResult(c) ==
    IF c.total = 0
    THEN [success |-> TRUE, stopped_count |-> 0]
    ELSE [success |-> c.fail_count = 0, stopped_count |-> c.success_count,
          failed_count |-> c.fail_count]

StopNext ==
    \/ \E via \in StopVia, t \in Tasks :
        \/ StopStart(via, t)
        \/ StopTerminate(via, t)
        \/ StopSetStopped(via, t)
        \/ StopEndLog(via, t)
        \/ StopCleanup(via, t)
    \/ ShutdownStart

\* ------------------------------------------------------------ _monitor_tasks
\* items of the snapshot that reach no await: process alive and no file of the
\* task in the log directory (lines 733-744)
RECURSIVE SkipQuiet(_)
SkipQuiet(rest) ==
    IF rest = <<>> THEN <<>>
    ELSE IF procs[Head(rest)[2]] = "alive" /\ dir_latest[Head(rest)[1]] = 0
         THEN SkipQuiet(Tail(rest))
         ELSE rest

\* The loop of lines 700-776 goes on with the items `rest` up to its next await.
\* Exited process (703-710): write COMPLETED for exit code 0, FAILED otherwise.
\* Process alive (733-750): take the newest file of the task in the log
\* directory and read the task's log rows.
BeginItem(rest0, errs) ==
    LET rest == SkipQuiet(rest0) IN
    IF rest = <<>>
    THEN /\ mon' = [IdleMon EXCEPT !.errs = errs, !.overwrote = mon.overwrote]
         /\ UNCHANGED status
    ELSE LET t == Head(rest)[1]
             p == Head(rest)[2]
         IN  IF procs[p] # "alive"
             THEN /\ status' = [status EXCEPT ![t] =
                                   IF procs[p] = "exit0" THEN COMPLETED ELSE FAILED]
                  /\ mon' = [IdleMon EXCEPT !.pc = "set_final", !.rest = Tail(rest),
                                !.t = t, !.p = p, !.errs = errs,
                                !.overwrote = IF status[t] = STOPPED
                                              THEN mon.overwrote \cup {t}
                                              ELSE mon.overwrote]
             ELSE /\ mon' = [IdleMon EXCEPT !.pc = "get_logs", !.rest = Tail(rest),
                                !.t = t, !.p = p, !.errs = errs,
                                !.overwrote = mon.overwrote,
                                !.latest = dir_latest[t],
                                !.known = dir_latest[t] \in RowFiles(logs[t])]
                  /\ UNCHANGED status

\* the interval job monitor_tasks fires: snapshot of running_processes (line 700)
MonitorStart ==
    /\ Budget
    /\ jobs[MonitorJob] # "none"
    /\ mon.pc = "idle"
    /\ BeginItem(running_processes, mon.errs)
    /\ ops' = ops + 1
    /\ UNCHANGED <<task_ids, repeat_type, end_time, logs, envvars, tables, jobs, sched, exec,
                   stopc, shut, upd, rotations>>
    /\ UNCHANGED <<stopall, auxvars>>

\* lines 717-730 once the log entry is dealt with: drop the file record, drop the
\* process entry (a KeyError if it is gone is caught at 778), read the task
FinishExited(t) ==
    /\ task_log_files' = [task_log_files EXCEPT ![t] = None]
    /\ IF Has(running_processes, t)
       THEN /\ running_processes' = Del(running_processes, t)
            /\ mon' = [mon EXCEPT !.pc = "get_task"]
            /\ UNCHANGED status
       ELSE /\ BeginItem(mon.rest, mon.errs \cup {t})
            /\ UNCHANGED running_processes

\* lines 712-715: close the recorded log entry of the exited task
MonitorSetFinal ==
    /\ sched = "running"
    /\ mon.pc = "set_final"
    /\ IF task_log_entries[mon.t] # None
       THEN /\ logs' = [logs EXCEPT ![mon.t] = EndLogEntry(@, task_log_entries[mon.t])]
            /\ mon' = [mon EXCEPT !.pc = "end_log"]
            /\ UNCHANGED <<status, running_processes, task_log_files>>
       ELSE /\ FinishExited(mon.t)
            /\ UNCHANGED logs
    /\ UNCHANGED <<task_ids, repeat_type, end_time, envvars, task_log_entries, jobs, sched, exec,
                   stopc, shut, upd, ops, rotations>>
    /\ UNCHANGED <<stopall, auxvars>>

\* line 715: del task_log_entries[t], a KeyError if the entry is gone meanwhile
MonitorEndLog ==
    /\ sched = "running"
    /\ mon.pc = "end_log"
    /\ IF task_log_entries[mon.t] # None
       THEN /\ task_log_entries' = [task_log_entries EXCEPT ![mon.t] = None]
            /\ FinishExited(mon.t)
       ELSE /\ BeginItem(mon.rest, mon.errs \cup {mon.t})
            /\ UNCHANGED <<task_log_entries, task_log_files, running_processes>>
    /\ UNCHANGED <<task_ids, repeat_type, end_time, logs, envvars, jobs, sched, exec, stopc, shut,
                   upd, ops, rotations>>
    /\ UNCHANGED <<stopall, auxvars>>

\* lines 730-732: the task is read and the end of the run is printed
MonitorGetTask ==
    /\ sched = "running"
    /\ mon.pc = "get_task"
    /\ BeginItem(mon.rest, mon.errs)
    /\ UNCHANGED <<task_ids, repeat_type, end_time, logs, envvars, tables, jobs, sched, exec,
                   stopc, shut, upd, ops, rotations>>
    /\ UNCHANGED <<stopall, auxvars>>

\* lines 750-776 with the log rows read: a newest file that no row names gets a
\* new row (759); else, if it is not the recorded file, the record moves to it
\* and the rows are read again (764-772)
MonitorGetLogs ==
    /\ sched = "running"
    /\ mon.pc = "get_logs"
    /\ IF ~mon.known
       THEN /\ logs' = [logs EXCEPT ![mon.t] = CreateLogEntry(@, NextLogId(mon.t), mon.latest)]
            /\ mon' = [mon EXCEPT !.pc = "create_log", !.id = NextLogId(mon.t)]
            /\ UNCHANGED <<status, task_log_files>>
       ELSE IF task_log_files[mon.t] # None /\ task_log_files[mon.t] # mon.latest
       THEN /\ task_log_files' = [task_log_files EXCEPT ![mon.t] = mon.latest]
            /\ mon' = [mon EXCEPT !.pc = "get_logs2",
                                  !.id = FindByFile(logs[mon.t], mon.latest)]
            /\ UNCHANGED <<status, logs>>
       ELSE /\ BeginItem(mon.rest, mon.errs)
            /\ UNCHANGED <<logs, task_log_files>>
    /\ UNCHANGED <<task_ids, repeat_type, end_time, envvars, running_processes, task_log_entries,
                   jobs, sched, exec, stopc, shut, upd, ops, rotations>>
    /\ UNCHANGED <<stopall, auxvars>>

\* lines 760-767: the new row becomes the recorded entry and its file the
\* recorded file, so the rotation check that follows finds nothing to do
MonitorCreateLog ==
    /\ sched = "running"
    /\ mon.pc = "create_log"
    /\ task_log_entries' = [task_log_entries EXCEPT ![mon.t] = mon.id]
    /\ task_log_files' = [task_log_files EXCEPT ![mon.t] = mon.latest]
    /\ BeginItem(mon.rest, mon.errs)
    /\ UNCHANGED <<task_ids, repeat_type, end_time, logs, envvars, running_processes, jobs, sched,
                   exec, stopc, shut, upd, ops, rotations>>
    /\ UNCHANGED <<stopall, auxvars>>

\* lines 773-776: the row of the newest file becomes the recorded entry
MonitorGetLogs2 ==
    /\ sched = "running"
    /\ mon.pc = "get_logs2"
    /\ task_log_entries' = IF mon.id # None
                           THEN [task_log_entries EXCEPT ![mon.t] = mon.id]
                           ELSE task_log_entries
    /\ BeginItem(mon.rest, mon.errs)
    /\ UNCHANGED <<task_ids, repeat_type, end_time, logs, envvars, running_processes,
                   task_log_files, jobs, sched, exec, stopc, shut, upd, ops, rotations>>
    /\ UNCHANGED <<stopall, auxvars>>

MonitorNext ==
    \/ MonitorStart
    \/ MonitorSetFinal
    \/ MonitorEndLog
    \/ MonitorGetTask
    \/ MonitorGetLogs
    \/ MonitorCreateLog
    \/ MonitorGetLogs2

\* ------------------------------------------------------------ update_task route
\* A request sets some fields of TaskUpdate (schemas/task.py 20-28) and leaves the
\* others unset: here a status, or the repeat rule and end time, or neither.
StatusInputs == {"unset", PENDING, RUNNING}
Keep == [repeat_type |-> "unset", end_time |-> "unset"]
UpdateRequests ==
    {r \in [status : StatusInputs, prof : Profiles \cup {Keep}] :
        r.status = "unset" \/ r.prof = Keep}

\* api/routes/tasks.py 82-90: the route reads the task
UpdateStart(t, req) ==
    /\ Budget
    /\ t \in task_ids
    /\ upd[t].pc = "idle"
    /\ upd' = [upd EXCEPT ![t] = [pc |-> "get_task", cur |-> status[t], req |-> req]]
    /\ ops' = ops + 1
    /\ UNCHANGED <<dbvars, envvars, tables, jobs, sched, exec, stopc, shut, mon, rotations>>
    /\ UNCHANGED <<stopall, auxvars>>

\* the status update_task writes (tasks.py 92-98): the status of the request,
\* or PENDING when none is given and the task was failed, completed or stopped
UpdatedStatus(cur, st, old) ==
    IF cur \in {FAILED, COMPLETED, STOPPED} /\ st = "unset" THEN PENDING
    ELSE IF st = "unset" THEN old
    ELSE st

\* tasks.py 92-98: TaskService.update_task writes the fields the request sets
UpdateWrite(t) ==
    LET req == upd[t].req IN
    /\ sched = "running"
    /\ upd[t].pc = "get_task"
    /\ IF t \in task_ids
       THEN /\ status' = [status EXCEPT ![t] = UpdatedStatus(upd[t].cur, req.status, @)]
            /\ repeat_type' = [repeat_type EXCEPT ![t] =
                                  IF req.prof = Keep THEN @ ELSE req.prof.repeat_type]
            /\ end_time' = [end_time EXCEPT ![t] =
                               IF req.prof = Keep THEN @ ELSE req.prof.end_time]
            /\ upd' = [upd EXCEPT ![t] = [@ EXCEPT !.pc = "updated"]]
       ELSE \* the row is gone: update_task returns None and the route answers 404
            /\ upd' = [upd EXCEPT ![t] = IdleUpd]
            /\ UNCHANGED <<status, repeat_type, end_time>>
    /\ UNCHANGED <<task_ids, logs, envvars, tables, jobs, sched, exec, stopc, shut, mon,
                   ops, rotations>>
    /\ UNCHANGED <<stopall, auxvars>>

\* tasks.py 106-109 and scheduler.py 781-788: reschedule_task
Reschedule(t) ==
    /\ sched = "running"
    /\ upd[t].pc = "updated"
    /\ jobs' = IF t \in task_ids
               THEN ScheduleTask(jobs, t, repeat_type[t], end_time[t], past_end_date[t])
               ELSE jobs
    /\ upd' = [upd EXCEPT ![t] = IdleUpd]
    /\ UNCHANGED <<dbvars, envvars, tables, sched, exec, stopc, shut, mon, ops, rotations>>
    /\ UNCHANGED <<stopall, auxvars>>

UpdateNext ==
    \E t \in Tasks :
        \/ \E req \in UpdateRequests : UpdateStart(t, req)
        \/ UpdateWrite(t)
        \/ Reschedule(t)

\* ------------------------------------------------------------ environment
\* a wrapper process ends with the exit code of its command (log_wrapper.py 282-296)
ProcExit(p, code) ==
    /\ procs[p] = "alive"
    /\ procs' = [procs EXCEPT ![p] = code]
    /\ UNCHANGED <<dbvars, past_end_date, dir_latest, proc_task, tables, jobs, sched,
                   ctxvars, ops, rotations>>
    /\ UNCHANGED <<stopall, auxvars>>

\* a running wrapper rolls to a new log file (log_wrapper.py 170-183)
Rotate(p) ==
    /\ rotations < MaxRotations
    /\ procs[p] = "alive"
    /\ dir_latest' = [dir_latest EXCEPT ![proc_task[p]] = @ + 1]
    /\ rotations' = rotations + 1
    /\ UNCHANGED <<dbvars, past_end_date, procs, proc_task, tables, jobs, sched,
                   ctxvars, ops>>
    /\ UNCHANGED <<stopall, auxvars>>

EnvNext ==
    \/ \E p \in Pids, code \in ExitCodes : ProcExit(p, code)
    \/ \E p \in Pids : Rotate(p)

Next == ExecNext \/ StopNext \/ MonitorNext \/ UpdateNext \/ EnvNext

Spec == Init /\ [][Next]_vars

\* stops, sweeps and the environment on two running tasks
NextRunning ==
    \/ StopNext
    \/ MonitorStart
    \/ MonitorSetFinal
    \/ MonitorEndLog
    \/ MonitorGetTask
    \/ MonitorGetLogs
    \/ MonitorCreateLog
    \/ EnvNext
SpecRunning == InitRunning /\ [][NextRunning]_vars

\* stop_all_tasks on two running tasks, with sweeps and process exits
NextStopAll ==
    \/ StopAllStart
    \/ \E t \in Tasks :
        \/ StopTerminate("all", t)
        \/ StopSetStopped("all", t)
        \/ StopEndLog("all", t)
        \/ StopCleanup("all", t)
    \/ MonitorStart
    \/ MonitorSetFinal
    \/ MonitorEndLog
    \/ MonitorGetTask
    \/ MonitorGetLogs
    \/ \E p \in Pids, code \in ExitCodes : ProcExit(p, code)
SpecStopAll == InitRunning /\ [][NextStopAll]_vars

\* ------------------------------------------- start-up, create and delete routes
MaxTimerOps == 2       \* operations started in a run of SpecTimers

\* main.py lifespan and TaskScheduler.start (scheduler.py 34-47): scheduler.start(),
\* _load_pending_tasks over the rows of the database, then the monitor job.  The
\* application serves no request before start() has returned.
Start ==
    /\ boot.pc = "idle"
    /\ sched = "created"
    /\ jobs' = StartJobs(status, repeat_type, end_time, past_end_date, boot.ahead)
    /\ sched' = "running"
    /\ boot' = IdleBoot
    /\ UNCHANGED <<dbvars, envvars, tables, ctxvars, ops, rotations, stopall, trig, stream, sidevars>>

\* the repeat rule and end time a TaskCreate request carries (schemas/task.py 15-17)
CreateProfiles == [repeat_type : {NONE, DAILY}, end_time : {"unset", "later_date"}]

\* POST /tasks (tasks.py 19-30): TaskService.create_task inserts the row with
\* status PENDING; the route then calls reschedule_task (action Reschedule)
CreateTask(t, prof) ==
    /\ Budget
    /\ ops < MaxTimerOps
    /\ t \notin task_ids
    /\ upd[t].pc = "idle"
    /\ task_ids' = task_ids \cup {t}
    /\ status' = [status EXCEPT ![t] = PENDING]
    /\ repeat_type' = [repeat_type EXCEPT ![t] = prof.repeat_type]
    /\ end_time' = [end_time EXCEPT ![t] = prof.end_time]
    /\ past_end_date' = [past_end_date EXCEPT ![t] = FALSE]
    /\ logs' = [logs EXCEPT ![t] = <<>>]
    /\ dir_latest' = [dir_latest EXCEPT ![t] = 0]
    /\ upd' = [upd EXCEPT ![t] = [IdleUpd EXCEPT !.pc = "updated"]]
    /\ ops' = ops + 1
    /\ UNCHANGED <<procs, proc_task, tables, jobs, sched, exec, stopc, shut, mon,
                   rotations, stopall, auxvars>>

\* DELETE /tasks/{id} (tasks.py 112-125): TaskService.delete_task deletes the row;
\* the route makes no call to the scheduler
DeleteTask(t) ==
    /\ Budget
    /\ ops < MaxTimerOps
    /\ t \in task_ids
    /\ task_ids' = task_ids \ {t}
    /\ ops' = ops + 1
    /\ UNCHANGED <<status, repeat_type, end_time, logs, envvars, tables, jobs, sched,
                   ctxvars, rotations, stopall, auxvars>>

\* Before start-up: the scheduler object exists, its job store is empty, and the
\* database holds one task in any status with any repeat rule.
TimerProfiles == [repeat_type : RepeatType, end_time : {"unset", "later_date"}]
InitTimers ==
    /\ task_ids = {1}
    /\ \E st \in TaskStatus : status = [t \in Tasks |-> st]
    /\ \E prof \in TimerProfiles :
          /\ repeat_type = [t \in Tasks |-> prof.repeat_type]
          /\ end_time = [t \in Tasks |-> prof.end_time]
    /\ \E past \in BOOLEAN :
          past_end_date = [t \in Tasks |-> past /\ end_time[t] # "unset"]
    /\ logs = [t \in Tasks |-> OldRows]
    /\ dir_latest = [t \in Tasks |-> Last(logs[t]).file]
    /\ procs = [p \in Pids |-> "none"]
    /\ proc_task = [p \in Pids |-> None]
    /\ running_processes = <<>>
    /\ task_log_entries = [t \in Tasks |-> None]
    /\ task_log_files = [t \in Tasks |-> None]
    /\ jobs = NoJobs
    /\ sched = "created"
    /\ exec = [e \in ExecIds |-> IdleExec]
    /\ stopc = [s \in StopIds |-> IdleStop]
    /\ shut = IdleShut
    /\ mon = IdleMon
    /\ upd = [t \in Tasks |-> IdleUpd]
    /\ ops = 0
    /\ rotations = 0
    /\ \E ahead \in BOOLEAN : boot = [pc |-> "idle", ahead |-> [t \in Tasks |-> ahead]]
    /\ trig = IdleTrig
    /\ stream = IdleStream
    /\ SideIdle
    /\ stopall = IdleStopAll

\* a timer fire or a manual launch, and an update request, within MaxTimerOps
LaunchWithin(via, t) == ops < MaxTimerOps /\ ExecStart(via, t)
UpdateWithin(t, req) == ops < MaxTimerOps /\ UpdateStart(t, req)

NextTimers ==
    \/ Start
    \/ \E via \in ExecVia, t \in Tasks :
        \/ LaunchWithin(via, t)
        \/ ExecCheck(via, t)
        \/ ExecCreateLog(via, t)
        \/ ExecSpawn(via, t)
        \/ ExecProbe(via, t)
        \/ ExecEarlyFailed(via, t)
        \/ ExecEarlyEndLog(via, t)
        \/ ExecLaunched(via, t)
        \/ ExecExcFailed(via, t)
        \/ ExecExcEndLog(via, t)
    \/ \E t \in Tasks :
        \/ \E req \in UpdateRequests : UpdateWithin(t, req)
        \/ UpdateWrite(t)
        \/ Reschedule(t)
    \/ \E t \in Tasks, prof \in CreateProfiles : CreateTask(t, prof)
    \/ \E t \in Tasks : DeleteTask(t)
    \/ \E p \in Pids, code \in ExitCodes : ProcExit(p, code)
SpecTimers == InitTimers /\ [][NextTimers]_vars

\* ------------------------------------------------- the job store over time
\* the scheduler's own variables, which the job store and the log stream leave alone
corevars == <<task_ids, status, repeat_type, end_time, past_end_date, logs, dir_latest,
              procs, proc_task, running_processes, task_log_entries, task_log_files,
              jobs, sched, exec, stopc, shut, mon, upd, ops, rotations, stopall, boot>>
InitCore ==
    /\ task_ids = {}
    /\ status = [t \in Tasks |-> PENDING]
    /\ repeat_type = [t \in Tasks |-> NONE]
    /\ end_time = [t \in Tasks |-> "unset"]
    /\ past_end_date = [t \in Tasks |-> FALSE]
    /\ logs = [t \in Tasks |-> <<>>]
    /\ dir_latest = [t \in Tasks |-> 0]
    /\ procs = [p \in Pids |-> "none"]
    /\ proc_task = [p \in Pids |-> None]
    /\ running_processes = <<>>
    /\ task_log_entries = [t \in Tasks |-> None]
    /\ task_log_files = [t \in Tasks |-> None]
    /\ jobs = NoJobs
    /\ sched = "created"
    /\ exec = [e \in ExecIds |-> IdleExec]
    /\ stopc = [s \in StopIds |-> IdleStop]
    /\ shut = IdleShut
    /\ mon = IdleMon
    /\ upd = [t \in Tasks |-> IdleUpd]
    /\ ops = 0
    /\ rotations = 0
    /\ boot = IdleBoot
    /\ stopall = IdleStopAll

MaxStreak == 2
\* instants of month 1, month 2 and month 4
StartTimes == {1, 7, 19}
EndTimes == {NoTime, 5, 14}
TrigAttrs == [repeat_type : RepeatType, start_time : StartTimes, end_time : EndTimes]

\* task 1 has just been created at instant 0 (day 0, 08:00:00) and no job of it
\* is in the store yet
InitTrigger ==
    /\ InitCore
    /\ \E a \in TrigAttrs : trig = [IdleTrig EXCEPT !.attr = a]
    /\ stream = IdleStream
    /\ SideIdle

\* reschedule_task(1): _schedule_task on the stored attributes
TrSchedule ==
    /\ trig' = [trig EXCEPT !.store = ScheduleJobs(@, trig.attr, trig.now),
                            !.streak = IF @ < MaxStreak THEN @ + 1 ELSE @]
    /\ UNCHANGED <<corevars, stream, sidevars>>

\* update_task writes a new repeat rule or end time (the route then calls
\* reschedule_task)
TrEdit(a) ==
    /\ trig.edits < MaxEdits
    /\ a # trig.attr
    /\ a.start_time = trig.attr.start_time
    /\ trig' = [trig EXCEPT !.attr = a, !.edits = @ + 1, !.streak = 0]
    /\ UNCHANGED <<corevars, stream, sidevars>>

Due(j) == j.next_run_time <= trig.now

\* the scheduler processes a due job: it runs it unless its run time is past the
\* misfire grace time, then asks the trigger for the next run time and removes
\* the job when there is none
TrFire(i) ==
    /\ i \in 1..Len(trig.store)
    /\ Due(trig.store[i])
    /\ LET j == trig.store[i]
           next == GetNextFireTime(j.trigger, j.next_run_time, trig.now)
       IN  trig' = [trig EXCEPT
                      !.store = IF next = NoTime THEN RemoveJob(@, j.id)
                                ELSE [@ EXCEPT ![i] = [j EXCEPT !.next_run_time = next]],
                      !.fired = IF j.next_run_time = trig.now
                                THEN <<[id |-> j.id, at |-> trig.now]>>
                                ELSE @,
                      !.streak = 0]
    /\ UNCHANGED <<corevars, stream, sidevars>>

\* time passes to the next instant once no job is due
TrTick ==
    /\ trig.now < MaxInstant
    /\ \A i \in 1..Len(trig.store) : ~Due(trig.store[i])
    /\ trig' = [trig EXCEPT !.now = @ + 1, !.streak = 0]
    /\ UNCHANGED <<corevars, stream, sidevars>>

NextTrigger ==
    \/ TrSchedule
    \/ \E a \in TrigAttrs : TrEdit(a)
    \/ \E i \in 1..(2 * MaxStreak + 2) : TrFire(i)
    \/ TrTick
SpecTrigger == InitTrigger /\ [][NextTrigger]_vars

\* ------------------------------------------------------------ log streamer
MaxBytes == 7          \* length the log file may reach in a run
MaxChunk == 2          \* bytes the wrapper appends in one write

\* The session is attached (websocket.py 100-144): the initial content has been
\* sent and last_size is the size the file had then.
InitStream ==
    /\ InitCore
    /\ trig = IdleTrig
    /\ SideIdle
    /\ \E n \in 0..MaxChunk :
          stream = [pc |-> "sleep", size |-> n, base |-> n, last_size |-> n,
                    current_size |-> n, sent |-> <<>>, ticks |-> 0]

\* the wrapper process appends k bytes to the log file (log_wrapper.py 158-169)
StreamWrite(k) ==
    /\ stream.pc # "closed"
    /\ stream.size + k <= MaxBytes
    /\ stream' = [stream EXCEPT !.size = @ + k]
    /\ UNCHANGED <<corevars, trig, sidevars>>

\* websocket.py 144, 210-212: the sleep is over, the session reads the size of the file
StreamStat ==
    /\ stream.pc = "sleep"
    /\ stream' = [stream EXCEPT !.current_size = stream.size,
                                !.pc = IF stream.size > stream.last_size
                                       THEN "read" ELSE "sleep"]
    /\ UNCHANGED <<corevars, trig, sidevars>>

\* websocket.py 239-248: seek(last_size), read() up to the end the file has now,
\* send the content, last_size = current_size
StreamRead ==
    /\ stream.pc = "read"
    /\ stream' = [stream EXCEPT
                    !.sent = @ \o [i \in 1..(stream.size - stream.last_size) |->
                                      stream.last_size + i],
                    !.last_size = stream.current_size,
                    !.ticks = @ + 1,
                    !.pc = "sleep"]
    /\ UNCHANGED <<corevars, trig, sidevars>>

NextStream ==
    \/ \E k \in 1..MaxChunk : StreamWrite(k)
    \/ StreamStat
    \/ StreamRead
SpecStream == InitStream /\ [][NextStream]_vars

\* ------------------------------------------------------------ terminate
\* stop_task has found task_id in running_processes (scheduler.py 635-636); the
\* tree of the tracked process is any tree of at most MaxChildren descendants,
\* each process still running or already gone
InitTerminate ==
    /\ InitCore
    /\ trig = IdleTrig
    /\ stream = IdleStream
    /\ sess = IdleSess /\ rot = IdleRot /\ san = IdleSan /\ wrap = IdleWrap /\ clean = IdleClean
    /\ \E n \in 0..MaxChildren, gone \in SUBSET TreeProcs, obeys \in SUBSET TreeProcs :
          term = [IdleTerm EXCEPT
                    !.pc = "enumerate",
                    !.st = [p \in TreeProcs |->
                              IF p > n THEN "none"
                              ELSE IF p \in gone THEN "gone" ELSE "alive"],
                    !.obeys = obeys \cap 0..n]

termOthers == <<corevars, trig, stream, sess, rot, san, wrap, clean>>
SeqOf(S) == IF S = {} THEN <<>>
            ELSE [i \in 1..Cardinality(S) |->
                    CHOOSE p \in S : Cardinality({q \in S : q < p}) = i - 1]
Range(q) == {q[i] : i \in 1..Len(q)}

\* psutil.Process(pid) and parent.children(recursive=True) (lines 640-641);
\* NoSuchProcess when the wrapper is gone
TermEnumerate ==
    /\ term.pc = "enumerate"
    /\ term' = IF term.st[0] # "alive"
               THEN [term EXCEPT !.pc = "done"]
               ELSE [term EXCEPT
                       !.children = SeqOf({p \in TreeProcs \ {0} : term.st[p] = "alive"}),
                       !.i = 1, !.pc = "children"]
    /\ UNCHANGED termOthers

\* SIGTERM to process p: psutil raises NoSuchProcess when p is gone, and the
\* except clause of lines 657-658 ends the block
Signal(p, then) ==
    IF term.st[p] # "alive"
    THEN [term EXCEPT !.pc = "done"]
    ELSE [then EXCEPT !.signalled = Append(@, p)]

\* for child in children: child.terminate() (lines 644-645), one child a step
TermChild ==
    /\ term.pc = "children"
    /\ term' = IF term.i > Len(term.children)
               THEN [term EXCEPT !.pc = "parent"]
               ELSE Signal(term.children[term.i], [term EXCEPT !.i = @ + 1])
    /\ UNCHANGED termOthers

\* parent.terminate() (line 648)
TermParent ==
    /\ term.pc = "parent"
    /\ term' = Signal(0, [term EXCEPT !.pc = "wait"])
    /\ UNCHANGED termOthers

\* psutil.wait_procs(children + [parent], timeout=5) (line 651): the processes
\* that obey SIGTERM exit within the timeout, the others are returned as alive
TermWait ==
    /\ term.pc = "wait"
    /\ LET st1 == [p \in TreeProcs |->
                     IF term.st[p] = "alive" /\ p \in Range(term.signalled)
                        /\ p \in term.obeys
                     THEN "gone" ELSE term.st[p]]
       IN  term' = [term EXCEPT
                      !.st = st1,
                      !.alive = SelectSeq(term.children \o <<0>>,
                                          LAMBDA p : st1[p] = "alive"),
                      !.i = 1, !.pc = "kill"]
    /\ UNCHANGED termOthers

\* for p in alive: p.kill() (lines 654-655), one process a step
TermKill ==
    /\ term.pc = "kill"
    /\ term' = IF term.i > Len(term.alive)
               THEN [term EXCEPT !.pc = "done"]
               ELSE LET p == term.alive[term.i] IN
                    IF term.st[p] # "alive"
                    THEN [term EXCEPT !.pc = "done"]
                    ELSE [term EXCEPT !.st[p] = "gone", !.killed = Append(@, p),
                                      !.i = @ + 1]
    /\ UNCHANGED termOthers

\* a process of the tree exits by itself
TermProcExit(p) ==
    /\ term.pc \notin {"idle", "done"}
    /\ term.st[p] = "alive"
    /\ term' = [term EXCEPT !.st[p] = "gone"]
    /\ UNCHANGED termOthers

NextTerminate ==
    \/ TermEnumerate
    \/ TermChild
    \/ TermParent
    \/ TermWait
    \/ TermKill
    \/ \E p \in TreeProcs : TermProcExit(p)
SpecTerminate == InitTerminate /\ [][NextTerminate]_vars

\* ------------------------------------------------------------ file names
\* Task names are strings over an alphabet with a letter, a digit, the three
\* characters the code keeps by name, and a character it removes.
MaxNameLen == 3
Alphabet == {"a", "7", " ", "-", "_", "/"}
IsAlnum(c) == c \in {"a", "7"}
Names == UNION {[1..n -> Alphabet] : n \in 0..MaxNameLen}

\* "".join(c for c in task_name if c.isalnum() or c in (' ', '-', '_'))
JoinKept(task_name) ==
    SelectSeq(task_name, LAMBDA c : IsAlnum(c) \/ c \in {" ", "-", "_"})
\* a str.rstrip() that strips nothing
RstripNothing(w) == w
\* str.rstrip(): the string without its trailing whitespace
RECURSIVE Rstrip(_)
Rstrip(w) == IF w # <<>> /\ w[Len(w)] = " " THEN Rstrip(SubSeq(w, 1, Len(w) - 1))
             ELSE w
\* str.replace(' ', '_')
ReplaceSpaces(w) == [i \in 1..Len(w) |-> IF w[i] = " " THEN "_" ELSE w[i]]

\* log_service.py 141-142
ServiceSafeName(task_name) == ReplaceSpaces(Rstrip(JoinKept(task_name)))
\* log_wrapper.py 50-51
WrapperSafeName(task_name) == ReplaceSpaces(Rstrip(JoinKept(task_name)))

sanOthers == <<corevars, trig, stream, term, sess, rot, wrap, clean>>
InitSanitize ==
    /\ InitCore
    /\ trig = IdleTrig
    /\ stream = IdleStream
    /\ term = IdleTerm /\ sess = IdleSess /\ rot = IdleRot /\ wrap = IdleWrap /\ clean = IdleClean
    /\ \E name \in Names : san = [IdleSan EXCEPT !.name = name]

\* LogService.generate_log_file_path(task_id, task.name)
SanService ==
    /\ "service" \notin san.done
    /\ san' = [san EXCEPT !.service = ServiceSafeName(san.name),
                          !.done = @ \cup {"service"}]
    /\ UNCHANGED sanOthers

\* LogRotator._generate_log_filename() in the wrapper started with task.name
SanWrapper ==
    /\ "wrapper" \notin san.done
    /\ san' = [san EXCEPT !.wrapper = WrapperSafeName(san.name),
                          !.done = @ \cup {"wrapper"}]
    /\ UNCHANGED sanOthers

NextSanitize == SanService \/ SanWrapper
SpecSanitize == InitSanitize /\ [][NextSanitize]_vars

\* ------------------------------------------------------------ log rotator
MAX_LINES_PER_FILE == 50000
MaxDate == 2           \* the dates the clock shows are 0..MaxDate
MaxWrites == 3         \* calls of write() in a run
\* the newlines of the data of one write(): none, one line, a line and a marker
NewlinesPerWrite == 0..2
LogFile(d, part, lines, body) == [date |-> d, part |-> part, lines |-> lines, body |-> body]
\* log_dir when the wrapper starts on date 0: empty, or with the file the
\* scheduler created for this launch, or with the two parts of an earlier run
\* of the day
DirsAtStart ==
    {<<>>}
    \cup {<<LogFile(0, 1, n, <<"start">>)>> :
             n \in {1, MAX_LINES_PER_FILE - 1, MAX_LINES_PER_FILE}}
    \cup {<<LogFile(0, 1, MAX_LINES_PER_FILE + 1, <<"start", "data">>),
            LogFile(0, 2, 1, <<"start", "rotation", "data">>)>>}

rotOthers == <<corevars, trig, stream, term, sess, san, wrap, clean>>
InitRotator ==
    /\ InitCore
    /\ trig = IdleTrig
    /\ stream = IdleStream
    /\ term = IdleTerm /\ sess = IdleSess /\ san = IdleSan /\ wrap = IdleWrap /\ clean = IdleClean
    /\ \E dir \in DirsAtStart : rot = [IdleRot EXCEPT !.pc = "new", !.files = dir]

MaxNat(S) == CHOOSE n \in S : \A m \in S : m <= n
\* LogRotator._get_current_part_number(log_date)
GetCurrentPartNumber(files, log_date) ==
    MaxNat({1} \cup {IF files[i].part > 1 THEN files[i].part + 1 ELSE 2 :
                       i \in {k \in 1..Len(files) : files[k].date = log_date}})

\* a part number that goes on counting from the files of the rotator's old date
NewPartContinuing(files, log_date, current_date) ==
    GetCurrentPartNumber(files, log_date)
\* new_part of _create_new_log_file (log_wrapper.py 89-95)
NewPart(files, log_date, current_date) ==
    IF log_date < current_date THEN 1
    ELSE GetCurrentPartNumber(files, current_date)

\* _create_new_log_file of a rotator that has a file open (lines 78-95, 131-152):
\* the old file is closed, the new one gets the start marker and, for a part
\* after the first, the rotation marker
CreateNewLogFile(r) ==
    LET new_part == NewPart(r.files, r.log_date, r.today)
        body == IF new_part > 1 THEN <<"start", "rotation">> ELSE <<"start">>
    IN  [r EXCEPT !.log_date = r.today,
                  !.files = Append(@, LogFile(r.today, new_part, 0, body)),
                  !.cur = Len(r.files) + 1,
                  !.line_count = 0]

\* LogRotator.__init__ (lines 27-41) with the first-creation branch of
\* _create_new_log_file (96-152): the newest file of today is taken over, its
\* lines counted; without one a first file is created
RotCreate ==
    /\ rot.pc = "new"
    /\ LET matching == {i \in 1..Len(rot.files) : rot.files[i].date = rot.today} IN
       IF matching # {}
       THEN LET i == MaxNat(matching) IN
            rot' = [rot EXCEPT !.pc = "open", !.log_date = rot.today, !.cur = i,
                               !.line_count = rot.files[i].lines,
                               !.files[i].body = Append(@, "takeover")]
       ELSE rot' = [rot EXCEPT !.pc = "open", !.log_date = rot.today,
                               !.files = Append(@, LogFile(rot.today, 1, 0, <<"start">>)),
                               !.cur = Len(rot.files) + 1,
                               !.line_count = 0]
    /\ UNCHANGED rotOthers

\* LogRotator.write(data), data holding k newlines (lines 158-183)
RotWrite(k) ==
    /\ rot.pc = "open"
    /\ rot.writes < MaxWrites
    /\ LET written == [rot EXCEPT !.files[rot.cur].body = Append(@, "data"),
                                  !.line_count = @ + k,
                                  !.writes = @ + 1]
           need_rotate == \/ written.line_count > MAX_LINES_PER_FILE
                          \/ written.log_date < written.today
       IN  rot' = IF need_rotate THEN CreateNewLogFile(written) ELSE written
    /\ UNCHANGED rotOthers

\* the wall clock passes midnight
RotMidnight ==
    /\ rot.pc \in {"new", "open"}
    /\ rot.today < MaxDate
    /\ rot' = [rot EXCEPT !.today = @ + 1]
    /\ UNCHANGED rotOthers

\* LogRotator.close() (lines 185-193)
RotClose ==
    /\ rot.pc = "open"
    /\ rot' = [rot EXCEPT !.pc = "closed"]
    /\ UNCHANGED rotOthers

NextRotator ==
    \/ RotCreate
    \/ \E k \in NewlinesPerWrite : RotWrite(k)
    \/ RotMidnight
    \/ RotClose
SpecRotator == InitRotator /\ [][NextRotator]_vars

\* ------------------------------------------------------------ live-log session
sessOthers == <<corevars, trig, stream, term, rot, san, wrap, clean>>
\* manager.connect has accepted the connection (websocket.py 69); the task may
\* exist or not, with or without log entries and files
InitSession ==
    /\ InitCore
    /\ trig = IdleTrig
    /\ stream = IdleStream
    /\ term = IdleTerm /\ rot = IdleRot /\ san = IdleSan /\ wrap = IdleWrap /\ clean = IdleClean
    /\ \E exists \in BOOLEAN, st \in {PENDING, RUNNING, COMPLETED}, rows \in 0..1,
          sz \in {NoFile, 0, MaxSessBytes} :
          sess = [IdleSess EXCEPT
                    !.pc = "get_task", !.attached = TRUE, !.registered = TRUE,
                    !.exists = exists, !.status = st, !.seen = st,
                    !.rows = IF exists THEN rows ELSE 0,
                    !.size = [p \in LogPaths |-> IF exists /\ p = rows THEN sz ELSE NoFile]]

\* websocket.send_text(...): WebSocketDisconnect once the subscriber has
\* detached, handled by manager.disconnect (lines 288-289)
Send(r, type, then) ==
    IF r.attached THEN [then EXCEPT !.last = type]
    ELSE [r EXCEPT !.pc = "disconnected", !.registered = FALSE]
\* an exception other than WebSocketDisconnect reaches lines 290-299: an error
\* message is tried, then manager.disconnect
Raise(r) ==
    [r EXCEPT !.pc = "raised", !.registered = FALSE,
              !.last = IF r.attached THEN "error" ELSE @]

\* lines 78-93: the task is looked up; error and return when it is missing,
\* else the first status_update
SessGetTask ==
    /\ sess.pc = "get_task"
    /\ sess' = IF ~sess.exists
               THEN Send(sess, "error", [sess EXCEPT !.pc = "returned"])
               ELSE Send(sess, "status_update",
                         [sess EXCEPT !.seen = sess.status, !.pc = "get_logs"])
    /\ UNCHANGED sessOthers

\* lines 96-102 and 268: get_task_logs; without a log entry the handler goes to
\* its status-only loop, else os.path.exists of the latest file
SessGetLogs ==
    /\ sess.pc = "get_logs"
    /\ sess' = IF sess.rows = 0 THEN [sess EXCEPT !.pc = "sleep2"]
               ELSE IF sess.size[sess.rows] = NoFile
                    THEN [sess EXCEPT !.path = sess.rows, !.pc = "size_exists"]
                    ELSE [sess EXCEPT !.path = sess.rows, !.pc = "init_read"]
    /\ UNCHANGED sessOthers

\* lines 103-138: getsize and get_log_content inside try; a file that is gone or
\* does not decode gives an error message, content gives initial_log
SessInitRead ==
    /\ sess.pc = "init_read"
    /\ \E decodes \in BOOLEAN :
          LET then == [sess EXCEPT !.pc = "size_exists"] IN
          sess' = IF sess.size[sess.path] = NoFile \/ ~decodes
                  THEN Send(sess, "error", then)
                  ELSE IF sess.size[sess.path] > 0
                       THEN Send(sess, "initial_log", then)
                       ELSE then
    /\ UNCHANGED sessOthers

\* line 141, os.path.exists(log_file_path)
SessSizeExists ==
    /\ sess.pc = "size_exists"
    /\ sess' = IF sess.size[sess.path] = NoFile
               THEN [sess EXCEPT !.last_size = 0, !.pc = "sleep3"]
               ELSE [sess EXCEPT !.pc = "size_get"]
    /\ UNCHANGED sessOthers

\* line 141, os.path.getsize(log_file_path), outside any try of the loop
SessSizeGet ==
    /\ sess.pc = "size_get"
    /\ sess' = IF sess.size[sess.path] = NoFile THEN Raise(sess)
               ELSE [sess EXCEPT !.last_size = sess.size[sess.path], !.pc = "sleep3"]
    /\ UNCHANGED sessOthers

\* the bytes first..last of the file, as sent after a rotation notice
Bytes(r, first, last) ==
    IF r.out = <<>> THEN <<>> ELSE [i \in 1..(last - first + 1) |-> first + i - 1]

\* lines 144-174: after the sleep get_task_logs; when the latest entry names
\* another file, log_file_rotated is sent, the handler follows the new file from
\* last_size 0 and, when the file is there, goes on to read it
SessTick ==
    /\ sess.pc = "sleep3"
    /\ sess' =
         IF sess.rows = 0 \/ sess.rows = sess.path
         THEN [sess EXCEPT !.pc = "grow_exists"]
         ELSE Send(sess, "log_file_rotated",
                   [sess EXCEPT !.path = sess.rows, !.last_size = 0,
                                !.out = <<"rotated">>,
                                !.pc = IF sess.size[sess.rows] = NoFile
                                       THEN "grow_exists" ELSE "rot_read"])
    /\ UNCHANGED sessOthers

\* lines 175-199: get_log_content reads the new file (a text saying so when it
\* is gone), and what it returns is sent as initial_log unless it is empty
SessRotRead ==
    /\ sess.pc = "rot_read"
    /\ LET n == sess.size[sess.path]
           then == [sess EXCEPT !.pc = "rot_size"]
       IN  sess' = IF n = 0 THEN then
                   ELSE Send(sess, "initial_log",
                             [then EXCEPT !.out = @ \o (IF n = NoFile THEN <<>>
                                                        ELSE Bytes(sess, 1, n))])
    /\ UNCHANGED sessOthers

\* lines 200-207: last_size = os.path.getsize(log_file_path), inside the try
SessRotSize ==
    /\ sess.pc = "rot_size"
    /\ sess' = IF sess.size[sess.path] = NoFile
               THEN Send(sess, "error", [sess EXCEPT !.pc = "grow_exists"])
               ELSE [sess EXCEPT !.last_size = sess.size[sess.path],
                                 !.pc = "grow_exists"]
    /\ UNCHANGED sessOthers

\* line 210, os.path.exists(log_file_path)
SessGrowExists ==
    /\ sess.pc = "grow_exists"
    /\ sess' = IF sess.size[sess.path] = NoFile THEN [sess EXCEPT !.pc = "status"]
               ELSE [sess EXCEPT !.pc = "grow_getsize"]
    /\ UNCHANGED sessOthers

\* lines 211-212: os.path.getsize(log_file_path), before the try of line 214
SessGrowGetsize ==
    /\ sess.pc = "grow_getsize"
    /\ sess' = IF sess.size[sess.path] = NoFile THEN Raise(sess)
               ELSE IF sess.size[sess.path] > sess.last_size
                    THEN [sess EXCEPT !.current_size = sess.size[sess.path],
                                      !.pc = "grow_read"]
                    ELSE [sess EXCEPT !.current_size = sess.size[sess.path],
                                      !.pc = "status"]
    /\ UNCHANGED sessOthers

\* lines 214-256: open, seek(last_size), read inside try: log_update, or an
\* error message when the file cannot be opened
SessGrowRead ==
    /\ sess.pc = "grow_read"
    /\ sess' = IF sess.size[sess.path] = NoFile
               THEN Send(sess, "error", [sess EXCEPT !.pc = "status"])
               ELSE Send(sess, "log_update",
                         [sess EXCEPT !.last_size = sess.current_size, !.pc = "status",
                                      !.out = @ \o Bytes(sess, sess.last_size + 1,
                                                         sess.size[sess.path])])
    /\ UNCHANGED sessOthers

\* lines 259-267: get_task; status_update when the status has changed
SessStatus ==
    /\ sess.pc = "status"
    /\ sess' = IF sess.status # sess.seen
               THEN Send(sess, "status_update",
                         [sess EXCEPT !.seen = sess.status, !.pc = "sleep3"])
               ELSE [sess EXCEPT !.pc = "sleep3"]
    /\ UNCHANGED sessOthers

\* lines 270-283: the status-only loop: after the sleep get_task, status_update
\* when the status has changed, and get_task_logs when it is running
SessPoll ==
    /\ sess.pc = "sleep2"
    /\ sess' = IF sess.status # sess.seen
               THEN Send(sess, "status_update",
                         [sess EXCEPT !.seen = sess.status,
                                      !.pc = IF sess.status = RUNNING THEN "relogs"
                                             ELSE "sleep2"])
               ELSE sess
    /\ sess' # sess
    /\ UNCHANGED sessOthers

\* lines 283-286: `if logs: break` leaves the loop, and the handler returns
SessRelogs ==
    /\ sess.pc = "relogs"
    /\ sess' = IF sess.rows > 0 THEN [sess EXCEPT !.pc = "returned"]
               ELSE [sess EXCEPT !.pc = "sleep2"]
    /\ UNCHANGED sessOthers

SessOpen == sess.pc \notin {"closed", "returned", "raised", "disconnected"}

\* the task's status changes in the database
SessEnvStatus(st) ==
    /\ SessOpen /\ sess.exists /\ st # sess.status
    /\ sess' = [sess EXCEPT !.status = st]
    /\ UNCHANGED sessOthers

\* a launch or a rotation records a new log entry; its file may not be there yet
SessEnvLogEntry ==
    /\ SessOpen /\ sess.exists /\ sess.rows < MaxLogRows
    /\ \E sz \in {NoFile, 0} :
          sess' = [sess EXCEPT !.rows = @ + 1, !.size[sess.rows + 1] = sz]
    /\ UNCHANGED sessOthers

\* the wrapper creates or appends to a log file
SessEnvAppend(p) ==
    /\ SessOpen /\ p <= sess.rows /\ sess.size[p] < MaxSessBytes
    /\ sess' = [sess EXCEPT !.size[p] = IF @ = NoFile THEN 0 ELSE @ + 1]
    /\ UNCHANGED sessOthers

\* a log file is removed (cleanup_old_logs, or anyone with access to log_dir)
SessEnvRemove(p) ==
    /\ SessOpen /\ sess.size[p] # NoFile
    /\ sess' = [sess EXCEPT !.size[p] = NoFile]
    /\ UNCHANGED sessOthers

\* the subscriber closes the connection
SessEnvDetach ==
    /\ SessOpen /\ sess.attached
    /\ sess' = [sess EXCEPT !.attached = FALSE]
    /\ UNCHANGED sessOthers

NextSession ==
    \/ SessGetTask
    \/ SessGetLogs
    \/ SessInitRead
    \/ SessSizeExists
    \/ SessSizeGet
    \/ SessTick
    \/ SessRotRead
    \/ SessRotSize
    \/ SessGrowExists
    \/ SessGrowGetsize
    \/ SessGrowRead
    \/ SessStatus
    \/ SessPoll
    \/ SessRelogs
    \/ \E st \in {PENDING, RUNNING, COMPLETED} : SessEnvStatus(st)
    \/ SessEnvLogEntry
    \/ \E p \in LogPaths : SessEnvAppend(p)
    \/ \E p \in LogPaths : SessEnvRemove(p)
    \/ SessEnvDetach
SpecSession == InitSession /\ [][NextSession]_vars

\* ------------------------------------------------------------ log wrapper process
\* the lines the supervised command may print, and how many the pipe holds
MaxOutput == 2
MaxPending == 2
\* the return codes of a command that exits by itself, and of one ended by
\* SIGTERM or SIGKILL (subprocess reports the negated signal number)
CmdCodes == {0, 1}
BySigterm == 0 - 15
BySigkill == 0 - 9
wrapOthers == <<corevars, trig, stream, term, sess, rot, san, clean>>

\* the scheduler has spawned the wrapper (scheduler.py 443-489); the log
\* directory may or may not accept writes
InitWrapper ==
    /\ InitCore
    /\ trig = IdleTrig
    /\ stream = IdleStream
    /\ term = IdleTerm /\ sess = IdleSess /\ rot = IdleRot /\ san = IdleSan
    /\ clean = IdleClean
    /\ \E d \in {"ok", "failing"} : wrap = [IdleWrap EXCEPT !.pc = "init", !.disk = d]

\* sys.exit(code): the wrapper process ends with this exit code
Exit(w, code) == [w EXCEPT !.pc = "exited", !.exit_code = code]

\* log_wrapper.py 200-223: LogRotator() creates the first log file; then the
\* LOG_FILE_PATH line is printed on stderr; a failure exits with 1
WrapInit ==
    /\ wrap.pc = "init"
    /\ wrap' = IF wrap.disk = "ok"
               THEN [wrap EXCEPT !.pc = "spawn", !.file = "open",
                                 !.trace = Append(@, "path")]
               ELSE Exit(wrap, 1)
    /\ UNCHANGED wrapOthers

\* log_wrapper.py 226-260: Popen starts the command through the shell and the
\* handler of SIGTERM and SIGINT is registered; if Popen raises, the error is
\* written to the log (failures of that swallowed) and the wrapper exits with 1
WrapSpawn ==
    /\ wrap.pc = "spawn"
    /\ \E started \in BOOLEAN :
          wrap' = IF started
                  THEN [wrap EXCEPT !.pc = "loop", !.cmd = "running"]
                  ELSE IF wrap.disk = "ok"
                       THEN Exit([wrap EXCEPT !.file = "closed",
                                              !.trace = Append(@, "close")], 1)
                       ELSE Exit(wrap, 1)
    /\ UNCHANGED wrapOthers

\* process.kill() on the command (log_wrapper.py 307-310): it ends a command
\* that is still running
Killed(w) == IF w.cmd = "running"
             THEN [w EXCEPT !.cmd = "exited", !.code = BySigkill,
                            !.trace = Append(@, "kill")]
             ELSE w

\* log_wrapper.py 298-314: an exception raised inside the main loop. The
\* exception marker is written and the file closed unless that write raises
\* too; the command is killed; the wrapper exits with 1
WriteRaised(w) ==
    LET noted == [w EXCEPT !.trace = Append(@, "error")]
        closed == IF w.disk = "ok"
                  THEN [noted EXCEPT !.file = "closed", !.trace = Append(@, "close")]
                  ELSE noted
    IN  Exit(Killed(closed), 1)

\* log_wrapper.py 266, 274-276 with LogRotator.write (158-183): the command is
\* running and readline returns a line, which is written and flushed; a write
\* or a rotation that raises leaves the loop through the handler at 298
WrapLine ==
    /\ wrap.pc = "loop" /\ wrap.cmd = "running" /\ wrap.pending > 0
    /\ wrap' = IF wrap.disk = "ok"
               THEN [wrap EXCEPT !.pending = @ - 1, !.written = @ + 1]
               ELSE WriteRaised([wrap EXCEPT !.pending = @ - 1])
    /\ UNCHANGED wrapOthers

\* log_wrapper.py 266-296: poll() finds the command ended; the remaining
\* output is written (a failure leaves through 298); then the end marker is
\* written (failure swallowed, 285-288), the file closed, the LOG_FILE_PATH
\* line printed and the wrapper exits with the command's return code
WrapFinish ==
    /\ wrap.pc = "loop" /\ wrap.cmd = "exited"
    /\ wrap' = IF wrap.pending > 0 /\ wrap.disk # "ok"
               THEN WriteRaised([wrap EXCEPT !.pending = 0])
               ELSE Exit([wrap EXCEPT !.written = @ + wrap.pending, !.pending = 0,
                                      !.file = "closed",
                                      !.trace = @ \o <<"close", "path">>],
                         wrap.code)
    /\ UNCHANGED wrapOthers

\* log_wrapper.py 245-256, registered at 259-260: signal_handler closes the
\* log file, asks the command to terminate, kills it if it has not ended
\* within five seconds, and exits with 0
WrapSignal ==
    /\ wrap.pc = "loop"
    /\ \E obeys \in BOOLEAN :
          LET closed == [wrap EXCEPT !.file = "closed",
                                     !.trace = @ \o <<"signal", "close">>]
              ended == IF wrap.cmd # "running" THEN closed
                       ELSE IF obeys
                            THEN [closed EXCEPT !.cmd = "exited", !.code = BySigterm,
                                                !.trace = Append(@, "terminate")]
                            ELSE Killed(closed)
          IN  wrap' = Exit(ended, 0)
    /\ UNCHANGED wrapOthers

\* the command prints a line to the pipe
CmdLine ==
    /\ wrap.cmd = "running"
    /\ wrap.pending < MaxPending
    /\ wrap.pending + wrap.written < MaxOutput
    /\ wrap' = [wrap EXCEPT !.pending = @ + 1]
    /\ UNCHANGED wrapOthers

\* the command exits by itself
CmdExit(code) ==
    /\ wrap.cmd = "running"
    /\ wrap' = [wrap EXCEPT !.cmd = "exited", !.code = code]
    /\ UNCHANGED wrapOthers

\* the log directory stops or resumes accepting writes
DiskChange(d) ==
    /\ wrap.pc # "exited"
    /\ wrap.disk # d
    /\ wrap' = [wrap EXCEPT !.disk = d]
    /\ UNCHANGED wrapOthers

\* scheduler.py 700-710: the sweep finds that the tracked wrapper has ended and
\* stores completed for return code 0, failed otherwise
WrapSweep ==
    /\ wrap.pc = "exited" /\ wrap.status = RUNNING
    /\ wrap' = [wrap EXCEPT !.status = IF wrap.exit_code = 0 THEN COMPLETED ELSE FAILED]
    /\ UNCHANGED wrapOthers

NextWrapper ==
    \/ WrapInit
    \/ WrapSpawn
    \/ WrapLine
    \/ WrapFinish
    \/ WrapSignal
    \/ CmdLine
    \/ \E code \in CmdCodes : CmdExit(code)
    \/ \E d \in {"ok", "failing"} : DiskChange(d)
    \/ WrapSweep
SpecWrapper == InitWrapper /\ [][NextWrapper]_vars

\* ------------------------------------------------------------ log retention
\* the largest max_files and the most rows of one task
MaxKeep == 2
MaxRows == 4
cleanOthers == <<corevars, trig, stream, term, sess, rot, san, wrap>>

\* the rows of the two tasks: ids in the order of creation, each row with a
\* log file of its own
RowsOf(first, n) == [i \in 1..n |-> [id |-> first + i - 1, file |-> first + i - 1]]

\* cleanup_old_logs(task_id, max_files) is called (log_service.py 93); any
\* of the log files may be missing from the disk
InitCleanup ==
    /\ InitCore
    /\ trig = IdleTrig
    /\ stream = IdleStream
    /\ term = IdleTerm /\ sess = IdleSess /\ rot = IdleRot /\ san = IdleSan
    /\ wrap = IdleWrap
    /\ \E k \in 1..MaxKeep, n \in 0..MaxRows, m \in 0..1,
          disk \in SUBSET (1..(MaxRows + 1)) :
          LET rows == <<RowsOf(1, n), RowsOf(n + 1, m)>>
          IN  /\ disk \subseteq 1..(n + m)
              /\ clean = [IdleClean EXCEPT !.pc = "get_logs", !.max_files = k,
                                           !.rows = rows, !.before = rows,
                                           !.disk = disk]

\* log_service.py 95-99: logs = get_task_logs(task_id), newest first;
\* logs_to_delete = logs[max_files:] when there are more than max_files
CleanGetLogs ==
    /\ clean.pc = "get_logs"
    /\ LET found == GetTaskLogs(clean.rows[1])
       IN  clean' = IF Len(found) > clean.max_files
                    THEN [clean EXCEPT !.pc = "remove",
                                       !.todo = SubSeq(found, clean.max_files + 1, Len(found))]
                    ELSE [clean EXCEPT !.pc = "done"]
    /\ UNCHANGED cleanOthers

\* log_service.py 101-107: if the file of the entry exists, os.remove; an
\* exception of os.remove is ignored
CleanRemove ==
    /\ clean.pc = "remove"
    /\ \E removed \in BOOLEAN :
          clean' = [clean EXCEPT !.pc = "delete",
                                 !.disk = IF removed THEN @ \ {Head(clean.todo).file}
                                          ELSE @]
    /\ UNCHANGED cleanOthers

\* log_service.py 109-114: the row of the entry is deleted; after the last
\* entry the transaction is committed
CleanDelete ==
    /\ clean.pc = "delete"
    /\ LET entry == Head(clean.todo)
       IN  clean' = [clean EXCEPT
                       !.rows[1] = DeleteRows(@, {entry.id}),
                       !.deleted = Append(@, entry.id),
                       !.todo = Tail(@),
                       !.pc = IF Tail(clean.todo) = <<>> THEN "done" ELSE "remove"]
    /\ UNCHANGED cleanOthers

NextCleanup ==
    \/ CleanGetLogs
    \/ CleanRemove
    \/ CleanDelete
SpecCleanup == InitCleanup /\ [][NextCleanup]_vars

TypeOK ==
    /\ status \in [Tasks -> TaskStatus]
    /\ \A t \in Tasks : task_log_entries[t] \in Nat /\ task_log_files[t] \in Nat
    /\ \A i \in 1..Len(running_processes) : running_processes[i][2] \in Pids
    /\ Cardinality(Keys(running_processes)) = Len(running_processes)

\* ------------------------------------------------------------ properties
Alive(t) == {p \in Pids : procs[p] = "alive" /\ proc_task[p] = t}

\* C1: launches of one task are atomic: no step leaves two live wrapper
\* processes spawned for the same task, and no step replaces the process a
\* task's entry of running_processes holds by another process.
C1_LaunchAtomic ==
    [][\A t \in Tasks :
          /\ Cardinality(Alive(t))' <= 1
          /\ (Has(running_processes, t) /\ Has(running_processes', t)
                => Get(running_processes', t) = Get(running_processes, t))]_vars

\* C2: in every reachable state, a task whose stored status is running has an
\* entry in running_processes.
C2_RunningIsTracked ==
    \A t \in task_ids : status[t] = RUNNING => Has(running_processes, t)

\* C3: in every reachable state, a task that has an entry in running_processes
\* has the stored status running.
C3_TrackedIsRunning ==
    \A t \in task_ids : Has(running_processes, t) => status[t] = RUNNING

\* a stop_task call that returned True for a task it found in running_processes
StoppedRunning(c) == c.pc = "done" /\ c.result = "true" /\ c.was_running

\* C4: a stop and a sweep on the same running task do not disturb each other:
\* once stop_task has returned True for a task it found running, the sweep has
\* neither replaced its status stopped by completed or failed nor hit an
\* exception on that task's bookkeeping.
C4_StopSweepSerialized ==
    \A s \in StopIds :
        StoppedRunning(stopc[s]) => s[2] \notin mon.overwrote /\ s[2] \notin mon.errs

\* C5: at the step where stop_task returns True for a task it found running,
\* the task has no entry in running_processes, its status is stopped, the log
\* entry recorded for the run is not open, and at most RetentionLimit log rows
\* of the task remain.
C5_StopPostcondition ==
    [][\A s \in StopIds :
          (stopc[s].pc # "done" /\ StoppedRunning(stopc'[s]))
            => /\ ~Has(running_processes', s[2])
               /\ status'[s[2]] = STOPPED
               /\ ~IsOpen(logs'[s[2]], stopc[s].entry)
               /\ Len(logs'[s[2]]) <= RetentionLimit]_vars

\* C6: a step of stop_task, called directly or by a stop timer, on a task that
\* has no entry in running_processes changes neither the statuses, nor the
\* log rows, nor the scheduler's tables.
C6_StopIdleNoOp ==
    [][\A s \in StopIds :
          (s[1] \in {"direct", "timer"} /\ stopc'[s] # stopc[s] /\ ~stopc[s].was_running
             /\ ~Has(running_processes, s[2]))
            => status' = status /\ logs' = logs /\ tables' = tables]_vars

\* C7: at the step where _execute_task ends after a failed launch that had
\* created its log entry, the task's status is failed, that log entry is
\* closed, and the task has no entry in running_processes.
C7_LaunchFailurePostcondition ==
    [][\A e \in ExecIds :
          (exec[e].pc # "done" /\ exec'[e].pc = "done"
             /\ exec'[e].outcome \in {"failed", "raised"} /\ exec[e].log # None)
            => /\ status'[e[2]] = FAILED
               /\ IsClosed(logs'[e[2]], exec[e].log)
               /\ ~Has(running_processes', e[2])]_vars

\* C8: start_task_immediately returns True only when its _execute_task
\* launched a process, and that process was tracked.
C8_StartReportsFailure ==
    \A t \in Tasks :
        StartResult(t) = "true" => exec[<<"manual", t>>].outcome = "launched"

\* C9: a task whose status is running has at most one open log row.
C9_OneOpenLogEntry ==
    \A t \in task_ids : status[t] = RUNNING => Cardinality(OpenRows(logs[t])) <= 1

\* C10: once TaskScheduler.stop has shut the scheduler down, running_processes
\* is empty and no wrapper process is alive.
C10_ShutdownLeavesNothing ==
    sched = "shutdown" =>
        running_processes = <<>> /\ \A p \in Pids : procs[p] # "alive"

\* C19: when stop_all_tasks has returned, the counts of its result add up to the
\* number of ids it found in running_processes, success tells that no stop
\* failed, and with no id found the result is success with stopped_count 0.
C19_StopAllTally ==
    stopall.pc = "done" =>
        LET r == StopAllResult(stopall) IN
        IF stopall.total = 0
        THEN r.success /\ r.stopped_count = 0
        ELSE /\ r.stopped_count + r.failed_count = stopall.total
             /\ r.success = (r.failed_count = 0)
             /\ r.stopped_count =
                  Cardinality({t \in Tasks : stopc[<<"all", t>>].pc = "done"
                                               /\ stopc[<<"all", t>>].result = "true"})
             /\ r.failed_count =
                  Cardinality({t \in Tasks : stopc[<<"all", t>>].pc = "done"
                                               /\ stopc[<<"all", t>>].result = "false"})

\* a stop_all_tasks call that found two tasks, stopped one and failed on the other
C19_Witness ==
    /\ stopall.pc = "done"
    /\ stopall.total = 2
    /\ StopAllResult(stopall) = [success |-> FALSE, stopped_count |-> 1, failed_count |-> 1]

\* a stop_all_tasks call that found no task
C19_WitnessNone ==
    stopall.pc = "done" /\ stopall.total = 0
\* the timers _schedule_task arms for a task with these attributes when none is
\* armed for it
TimersFor(t, rt, et, past) == ScheduleTask(NoJobs, t, rt, et, past)

\* C11: at the step where reschedule_task ends, the fire timer and the stop
\* timer of the task are exactly those that its stored attributes call for.
C11_RescheduleExact ==
    [][\A t \in Tasks :
          (upd[t].pc = "updated" /\ upd'[t].pc = "idle")
            => LET want == TimersFor(t, repeat_type[t], end_time[t], past_end_date[t])
               IN  /\ jobs'[FireJob(t)] = want[FireJob(t)]
                   /\ jobs'[StopJob(t)] = want[StopJob(t)]]_vars
\* C13: a task that has been deleted has no fire timer and no stop timer
C13_DeletedHasNoTimers ==
    \A t \in Tasks \ task_ids :
        jobs[FireJob(t)] = "none" /\ jobs[StopJob(t)] = "none"

C14_WitnessPast ==
    /\ boot.pc = "done"
    /\ ops = 0
    /\ repeat_type[1] = NONE
    /\ status[1] = PENDING
    /\ jobs[FireJob(1)] = "none"
    /\ jobs[MonitorJob] = "interval"

\* C15: start-up arms every task that has a repeat rule, whatever its status
C15_RecurringArmedAtStartup ==
    [][(boot.pc = "idle" /\ boot'.pc = "done")
          => \A t \in task_ids :
                repeat_type[t] # NONE => jobs'[FireJob(t)] = "cron"]_vars

\* start-up has armed a quarterly task whose stored status is failed
C15_Witness ==
    /\ boot.pc = "done"
    /\ ops = 0
    /\ repeat_type[1] = QUARTERLY
    /\ status[1] = FAILED
    /\ jobs[FireJob(1)] = "cron"

C12_RescheduleIdempotent ==
    [][(/\ trig.streak >= 1
        /\ trig'.streak > trig.streak
        /\ trig.attr.repeat_type # NONE)
          => trig'.store = trig.store]_vars

\* a weekly task with an end time has been rescheduled twice in a row
C12_Witness ==
    /\ trig.streak = 2
    /\ trig.attr.repeat_type = WEEKLY
    /\ trig.attr.end_time # NoTime
    /\ Len(trig.store) = 2

At0800(n) == DateTimeOf(n).hour = 8 /\ DateTimeOf(n).minute = 0 /\ DateTimeOf(n).second = 0
At0900(n) == DateTimeOf(n).hour = 9 /\ DateTimeOf(n).minute = 0 /\ DateTimeOf(n).second = 0

\* C17: a daily task starting at 09:00:00 without end time.  Scheduled at
\* 08:00:00 into an empty store it has one job, a cron job, due at 09:00:00 of
\* the same day; when that job runs it stays in the store, due at 09:00:00 of
\* the next day
C17_DailyNextFire ==
    [][LET a == trig.attr
           S == trig.store
           T == trig'.store
       IN  (a.repeat_type = DAILY /\ At0900(a.start_time) /\ a.end_time = NoTime)
             => /\ (trig'.streak > trig.streak /\ S = <<>> /\ At0800(trig.now))
                     => /\ Len(T) = 1
                        /\ T[1].id = FireId
                        /\ T[1].trigger.kind = "cron"
                        /\ At0900(T[1].next_run_time)
                        /\ DayOf(T[1].next_run_time) = DayOf(trig.now)
                /\ (/\ trig'.now = trig.now /\ trig'.attr = a /\ trig'.streak = 0
                    /\ Len(S) = 1
                    /\ S[1].id = FireId
                    /\ S[1].trigger = TriggerFor(DAILY, a.start_time)
                    /\ S[1].next_run_time = trig.now)
                     => /\ trig'.fired = <<[id |-> FireId, at |-> trig.now]>>
                        /\ Len(T) = 1
                        /\ T[1].id = FireId
                        /\ T[1].trigger = S[1].trigger
                        /\ At0900(T[1].next_run_time)
                        /\ DayOf(T[1].next_run_time) = DayOf(trig.now) + 1]_vars

\* the job scheduled at 08:00:00 of day 0 has run at 09:00:00 and is due again at
\* 09:00:00 of day 1
C17_Witness ==
    /\ trig.attr.repeat_type = DAILY
    /\ At0900(trig.attr.start_time)
    /\ trig.attr.end_time = NoTime
    /\ trig.edits = 0
    /\ Len(trig.fired) = 1
    /\ trig.fired[1].id = FireId
    /\ DayOf(trig.fired[1].at) = 0
    /\ At0900(trig.fired[1].at)
    /\ Len(trig.store) = 1
    /\ DayOf(trig.store[1].next_run_time) = 1
    /\ At0900(trig.store[1].next_run_time)

\* C18: the fire job of a quarterly task whose start time is in month 2 fires in
\* the months 2, 5, 8 and 11
C18_QuarterlyFromFebruary ==
    \A i \in 1..Len(trig.store) :
        (/\ trig.streak > 0
         /\ trig.store[i].id = FireId
         /\ trig.attr.repeat_type = QUARTERLY
         /\ DateTimeOf(trig.attr.start_time).month = 2)
          => trig.store[i].trigger.month = {2, 5, 8, 11}
\* C20: the bytes a session has pushed are the bytes appended to the file since
\* the session attached, in order, each once
C20_NoDuplicateNoGap ==
    \A i \in 1..Len(stream.sent) : stream.sent[i] = stream.base + i
\* the sweep is at an await of its branch for an exited process, or of its branch
\* for a process that is alive
SweepExited(m) == m.pc \in {"set_final", "end_log"}
SweepAlive(m) == m.pc \in {"get_logs", "create_log", "get_logs2"}

\* C26: when the sweep has dealt with a tracked task whose process has exited,
\* the status is completed for exit code 0 and failed otherwise, the log entry
\* recorded for the task is not open, and the task has no entry in the three tables; while it
\* deals with a task whose process is alive, the sweep changes neither the
\* status of that task nor its entry in running_processes
C26_SweepReconciles ==
    [][/\ (SweepExited(mon) /\ ~(SweepExited(mon') /\ mon'.t = mon.t))
            => LET t == mon.t IN
               /\ status'[t] = IF procs[mon.p] = "exit0" THEN COMPLETED ELSE FAILED
               /\ task_log_entries[t] # None => ~IsOpen(logs'[t], task_log_entries[t])
               /\ ~Has(running_processes', t)
               /\ task_log_entries'[t] = None
               /\ task_log_files'[t] = None
       /\ (SweepAlive(mon) /\ mon' # mon)
            => LET t == mon.t IN
               /\ status'[t] = status[t]
               /\ Has(running_processes', t) = Has(running_processes, t)]_vars
\* C27: a launch that finds its wrapper process exited at the probe, with exit
\* code 0 or any other, writes status failed and goes to its failure path
\* without recording the process; no step puts an exited process into
\* running_processes, and no step of the failure path writes completed
C27_EarlyExitIsFailure ==
    [][/\ \A e \in ExecIds :
            /\ (exec[e].pc = "sleep" /\ exec'[e].pc # "sleep"
                /\ procs[exec[e].proc] # "alive")
                 => /\ status'[e[2]] = FAILED
                    /\ exec'[e].pc = "early_failed"
                    /\ running_processes' = running_processes
            /\ (exec[e].pc \in {"early_failed", "early_end_log"} /\ exec'[e] # exec[e])
                 => /\ status'[e[2]] = COMPLETED => status[e[2]] = COMPLETED
                    /\ ~Has(running_processes', e[2])
                          \/ Get(running_processes', e[2]) # exec[e].proc
                    /\ exec'[e].pc = "done" => exec'[e].outcome = "failed"
       /\ \A i \in 1..Len(running_processes') :
            running_processes'[i] \notin {running_processes[k] : k \in 1..Len(running_processes)}
              => procs[running_processes'[i][2]] = "alive"]_vars

\* a launch has found its process exited with code 0 and has written failed
C27_Witness ==
    \E e \in ExecIds :
        /\ exec[e].pc = "early_failed"
        /\ procs[exec[e].proc] = "exit0"
        /\ status[e[2]] = FAILED
        /\ ~Has(running_processes, e[2])
\* C29: stop_task on a tracked task whose process has already exited removes
\* the entry from running_processes and writes status stopped, and returns True
C29_StopExitedIsSuccess ==
    [][\A s \in StopIds :
          LET t == s[2] IN
          /\ (/\ stopc[s].pc = "get_task" /\ stopc'[s].pc # "get_task"
              /\ Has(running_processes, t)
              /\ procs[Get(running_processes, t)] # "alive")
                => ~Has(running_processes', t) /\ status'[t] = STOPPED
          /\ (stopc[s].exited /\ stopc'[s].pc = "done")
                => stopc'[s].result = "true"]_vars
\* C30: the jobs of a quarterly task fire in the four months of the year at a
\* multiple-of-3 offset from the first month of the quarter of their anchor
\* (start_time for the fire job, end_time for the stop job), on the anchor's
\* day of month and time of day
C30_QuarterlyFourMonths ==
    \A i \in 1..Len(trig.store) :
        (trig.streak > 0 /\ trig.attr.repeat_type = QUARTERLY)
          => LET j == trig.store[i]
                 f == DateTimeOf(IF j.id = FireId THEN trig.attr.start_time
                                 ELSE trig.attr.end_time)
                 q == ((f.month - 1) \div 3) * 3 + 1
             IN  /\ j.trigger.kind = "cron"
                 /\ j.trigger.month = {mo \in 1..12 : (mo + 12 - q) % 3 = 0}
                 /\ j.trigger.day = {f.day}
                 /\ j.trigger.hour = f.hour /\ j.trigger.minute = f.minute
                 /\ j.trigger.second = f.second
\* C28: stop_task signals every enumerated descendant before the wrapper, and
\* when its psutil block is over no process of the enumerated tree is alive
C28_TerminateWholeTree ==
    /\ \A k \in 1..Len(term.signalled) :
          term.signalled[k] = 0 => Range(term.children) \subseteq
                                      {term.signalled[m] : m \in 1..(k - 1)}
    /\ term.pc = "done"
          => \A p \in Range(term.children) \cup {0} : term.st[p] # "alive"
\* C25 as stated: the sanitized name is the name without the characters other
\* than alphanumerics, space, hyphen and underscore, with its spaces replaced by
\* underscores; the log service and the wrapper compute the same name
C25_SanitizedAsStated ==
    /\ "service" \in san.done => san.service = ReplaceSpaces(JoinKept(san.name))
    /\ "wrapper" \in san.done => san.wrapper = ReplaceSpaces(JoinKept(san.name))
    /\ san.done = {"service", "wrapper"} => san.service = san.wrapper
\* what is left of the name once the other characters are removed, up to its
\* last character that is not a space
KeptUpToLastNonSpace(name) ==
    LET kept == JoinKept(name)
        nonspace == {i \in 1..Len(kept) : kept[i] # " "}
        n == IF nonspace = {} THEN 0 ELSE CHOOSE i \in nonspace : \A k \in nonspace : k <= i
    IN  SubSeq(kept, 1, n)
\* C25: the sanitized name is the name without the characters other than
\* alphanumerics, space, hyphen and underscore, cut after its last character
\* that is not a space, with the spaces left replaced by underscores; the log
\* service and the wrapper compute the same name
C25_SanitizedName ==
    LET expected == KeptUpToLastNonSpace(san.name) IN
    /\ \A who \in san.done :
          LET got == IF who = "service" THEN san.service ELSE san.wrapper IN
          /\ Len(got) = Len(expected)
          /\ \A i \in 1..Len(got) :
                got[i] = IF expected[i] = " " THEN "_" ELSE expected[i]
    /\ san.done = {"service", "wrapper"} => san.service = san.wrapper
C25_Witness ==
    /\ san.done = {"service", "wrapper"}
    /\ JoinKept(san.name) # san.name
    /\ Len(JoinKept(san.name)) = 2
    /\ JoinKept(san.name)[1] = " "
    /\ JoinKept(san.name)[2] = " "
    /\ san.service = <<>>
\* the write() of this step has opened a new current file
Rotated == rot.pc = "open" /\ rot'.pc = "open" /\ rot'.cur # rot.cur
\* C23: when a write takes the lines of the current file, the first of its date,
\* over 50,000 on the date of that file, the rotator opens a file with part 2,
\* and the rotation marker is the last thing in the old file and follows the
\* start marker of the new one
C23_LineRotation ==
    [][(/\ Rotated
        /\ rot.log_date = rot.today
        /\ \A i \in 1..Len(rot.files) : rot.files[i].date = rot.today => i = rot.cur)
          => LET old == rot'.files[rot.cur]
                 new == rot'.files[rot'.cur]
             IN  /\ rot'.line_count = 0
                 /\ new.part = 2 /\ new.date = rot.today
                 /\ "rotation" \in Range(new.body)
                 /\ old.body[Len(old.body)] = "rotation"]_vars
\* C24: a write on a date after the date of the current file opens a new file
\* with the date of the clock and part 1, whatever the part of the old file
C24_DateRotation ==
    [][(rot.pc = "open" /\ rot.log_date < rot.today /\ rot'.writes # rot.writes)
          => /\ rot'.cur = Len(rot.files) + 1
             /\ rot'.files[rot'.cur].date = rot.today
             /\ rot'.files[rot'.cur].part = 1
             /\ rot'.log_date = rot.today
             /\ rot'.line_count = 0]_vars
C24_Witness ==
    /\ rot.pc = "open"
    /\ rot.cur > 1
    /\ rot.files[rot.cur - 1].part > 1
    /\ rot.files[rot.cur - 1].date < rot.files[rot.cur].date
    /\ "takeover" \in Range(rot.files[rot.cur - 1].body)
    /\ Last(rot.files[rot.cur - 1].body) = "data"
    /\ rot.files[rot.cur].part = 1
    /\ rot.files[rot.cur].date = rot.today
\* C21: the handler of a session for an existing task does not return while the
\* subscriber is attached; a session that waited in the status-only loop is
\* still there once the task runs and has a log entry
C21_SessionKept ==
    (sess.exists /\ sess.attached) => sess.pc # "returned"
\* C22: a log file that is missing, removed or undecodable at a read never
\* takes the handler of an attached subscriber down
C22_ReadErrorNotFatal ==
    sess.attached => sess.pc # "raised"
\* C31: once reschedule_task has scheduled a one-shot task, its fire job is in
\* the store only if start_time is after the instant of scheduling, and its
\* stop job exactly if end_time is set and after that instant; neither is there
\* twice
C31_OneShotTimers ==
    (trig.streak > 0 /\ trig.attr.repeat_type = NONE)
      => LET ids == [i \in 1..Len(trig.store) |-> trig.store[i].id]
             count(id) == Cardinality({i \in 1..Len(ids) : ids[i] = id})
         IN  /\ count(FireId) <= 1 /\ count(StopId) <= 1
             /\ count(FireId) = 1 => trig.attr.start_time > trig.now
             /\ count(StopId) = 1 <=> (trig.attr.end_time # NoTime
                                        /\ trig.attr.end_time > trig.now)
\* C32: when the sweep has dealt with a task whose process is still running and
\* whose newest log file was not the recorded one, a log entry names that file,
\* it is the entry of the task created last, and task_log_files and
\* task_log_entries refer to it
C32_SweepAdoptsNewest ==
    [][(/\ mon.pc \in {"create_log", "get_logs2"}
        /\ ~(SweepAlive(mon') /\ mon'.t = mon.t)
        /\ procs[mon.p] = "alive")
          => LET t == mon.t IN
             /\ logs'[t] # <<>>
             /\ Last(logs'[t]).file = mon.latest
             /\ task_log_files'[t] = mon.latest
             /\ task_log_entries'[t] = Last(logs'[t]).id]_vars
\* C33: a session that has switched to a rotated file has sent the rotation
\* notice first and then, once it has taken its baseline, every byte of the new
\* file below the baseline once, in order
C33_RotationFromFirstByte ==
    (sess.out # <<>> /\ sess.pc \notin {"rot_read", "rot_size"})
      => /\ sess.out[1] = "rotated"
         /\ Tail(sess.out) = [i \in 1..sess.last_size |-> i]

\* C34: a wrapper that has exited on SIGTERM or SIGINT has, after the signal,
\* first closed the current log file and then written the LOG_FILE_PATH line
\* on its diagnostic stream.
C34_SignalWritesLogPath ==
    \A i \in 1..Len(wrap.trace) :
        (wrap.pc = "exited" /\ wrap.trace[i] = "signal")
          => \E j, k \in 1..Len(wrap.trace) :
                /\ i < j /\ j < k
                /\ wrap.trace[j] = "close" /\ wrap.trace[k] = "path"

\* C35: after a log write or a rotation has failed in the wrapper, the wrapper
\* is still in its read loop and has not ended the supervised command.
C35_WriteFailureTolerated ==
    (\E i \in 1..Len(wrap.trace) : wrap.trace[i] = "error")
      => /\ wrap.pc = "loop"
         /\ \A i \in 1..Len(wrap.trace) : wrap.trace[i] # "kill"

\* C40: once the sweep has stored a final status for a task whose wrapper had
\* started its command and was never signalled, that status is completed
\* exactly if the command exited with code 0.
C40_CompletedIffExitZero ==
    (/\ wrap.status # RUNNING
     /\ wrap.cmd # "none"
     /\ \A i \in 1..Len(wrap.trace) : wrap.trace[i] # "signal")
      => (wrap.status = COMPLETED <=> wrap.code = 0)

\* C36: when cleanup_old_logs(task_id, max_files) has returned, the task has
\* exactly its max_files most recently created log entries (all of them when
\* there were fewer), the rows of the other task are as before, no deleted
\* entry's file is on the disk, and the entries were deleted oldest first.
C36_CleanupKeepsNewest ==
    clean.pc = "done"
      => LET was == clean.before[1]
             keep == IF Len(was) > clean.max_files THEN clean.max_files ELSE Len(was)
         IN  /\ clean.rows[1] = SubSeq(was, Len(was) - keep + 1, Len(was))
             /\ clean.rows[2] = clean.before[2]
             /\ \A i \in 1..(Len(was) - keep) : was[i].file \notin clean.disk
             /\ \A i, j \in 1..Len(clean.deleted) :
                   i < j => clean.deleted[i] < clean.deleted[j]

\* C39: a fire of a recurring task for which this scheduler has spawned no
\* process, tracks none and has no other launch under way (its status running
\* can only be the one the previous process left) does not end as already
\* running: the task is launched.
C39_StaleRunningIsLaunched ==
    [][\A t \in Tasks :
          LET e == <<"timer", t>> IN
          (/\ exec[e].pc = "get_task" /\ exec'[e].pc = "done"
           /\ repeat_type[t] # NONE
           /\ ~Has(running_processes, t)
           /\ \A p \in Pids : proc_task[p] # t
           /\ ~InProgress(exec[<<"manual", t>>]))
            => exec'[e].outcome # "already_running"]_vars

\* C37: if stop_task has returned True for a task while a launch of the task
\* was in its grace period (wrapper spawned, process not yet recorded), then
\* once that launch has finished, and with no other launch or edit of the
\* task, no process of the task is tracked or alive and its status is not
\* running.
C37_StopDuringGraceWins ==
    \A t \in Tasks : \A v \in ExecVia : \A w \in {"direct", "timer"} :
        LET e == <<v, t>>
            s == <<w, t>>
        IN  (/\ stopc[s].pc = "done" /\ stopc[s].result = "true" /\ stopc[s].grace
             /\ exec[e].pc = "done"
             /\ \A v2 \in ExecVia \ {v} : ~Started(<<v2, t>>)
             /\ upd[t].pc = "idle")
              => /\ ~Has(running_processes, t)
                 /\ Alive(t) = {}
                 /\ status[t] # RUNNING

\* C38: when the psutil block of stop_task is over and an enumerated
\* descendant could not be signalled because it had exited, every other
\* process of the enumerated tree, the wrapper included, has been signalled
\* or has exited, and none of them is alive.
C38_GoneDescendantTolerated ==
    (/\ term.pc = "done"
     /\ \E p \in Range(term.children) : p \notin Range(term.signalled))
      => \A q \in Range(term.children) \cup {0} :
            /\ q \in Range(term.signalled) \/ term.st[q] = "gone"
            /\ term.st[q] # "alive"

====
